---- MODULE Spec2Model ----
(***************************************************************************)
(* Model of the kevi encrypted vault engine: the header codec, key         *)
(* derivation, the AEAD container, the record codec, the byte store with   *)
(* rotating backups, the derived-key session cache, the cached key         *)
(* resolver and the vault service.                                         *)
(*                                                                         *)
(* Abstractions.  Argon2id and SHA-256 are injective (a key is the tuple   *)
(* of the inputs it was derived from, a fingerprint the tuple of hashed    *)
(* fields).  AES-256-GCM is an ideal AEAD: the sealed body remembers key,  *)
(* nonce, associated data and plaintext, and opens only when all of them   *)
(* match and no bit of ciphertext or tag was flipped.  The header is kept  *)
(* byte for byte.                                                          *)
(***************************************************************************)
EXTENDS Integers, Sequences, FiniteSets, TLC

(***************************************************************************)
(* Bounds of the model.                                                    *)
(***************************************************************************)
MaxN == 2          \* largest backup depth explored
MaxWrites == 4     \* byte-store writes started in one behaviour (SpecStore)
MaxLen == 2        \* longest record list handed to save
MaxOps == 2        \* vault writes in one behaviour (Spec)
MaxSalt == 2       \* distinct salts the random source can produce
MaxNonce == 2      \* distinct nonces the random source can produce
MaxTicks == 1      \* clock advances in one behaviour
TickSecs == 900    \* seconds per clock advance

(***************************************************************************)
(* Program constants (src/src/core/crypto.rs).                             *)
(***************************************************************************)
KEY_LEN == 32
NONCE_LEN == 12
SALT_LEN == 16
TAG_LEN == 16
HEADER_MAGIC == <<75, 69, 86, 73>>      \* b"KEVI"
HEADER_VERSION == 1
KDF_ARGON2ID == 2
AEAD_AES256GCM == 1
MIN_LEN == 4 + 2 + 1 + 1 + 4 * 3 + SALT_LEN + NONCE_LEN
DEFAULT_TTL == 900
DEFAULT_BACKUPS == 2

default_params == [m_cost_kib |-> 64 * 1024, t_cost |-> 3, p_lanes |-> 1]

(***************************************************************************)
(* Bytes.                                                                  *)
(***************************************************************************)
Pow2(k) == 2 ^ k

to_le_bytes(n, width) == [i \in 1..width |-> (n \div Pow2(8 * (i - 1))) % 256]

\* A u32 keeps its 32 bits: integers here are 32-bit two's
\* complement, so a u32 with the top bit set is the negative integer of the
\* same bit pattern (to_le_bytes gives its bytes back), and an order
\* comparison on a u32 treats a negative value as larger than any other.
RECURSIVE from_le_bytes(_)
from_le_bytes(bs) ==
    IF bs = <<>> THEN 0
    ELSE IF Len(bs) = 4 /\ bs[4] >= 128
        THEN from_le_bytes(SubSeq(bs, 1, 3)) + (bs[4] - 256) * Pow2(24)
    ELSE Head(bs) + 256 * from_le_bytes(Tail(bs))

\* byte ^= (1 << k)
FlipBit(byte, k) ==
    IF (byte \div Pow2(k)) % 2 = 1 THEN byte - Pow2(k) ELSE byte + Pow2(k)

starts_with(bytes, prefix) ==
    /\ Len(bytes) >= Len(prefix)
    /\ SubSeq(bytes, 1, Len(prefix)) = prefix

\* The random source fills a buffer; the model draws the filling byte.
SaltBytes(s) == [i \in 1..SALT_LEN |-> s]
NonceZero(n) == [i \in 1..NONCE_LEN |-> 0]

NonceBytes(n) == [i \in 1..NONCE_LEN |-> n]

(***************************************************************************)
(* Header codec.                                                           *)
(***************************************************************************)
build_header(salt, nonce, m_cost_kib, t_cost, p) ==
    HEADER_MAGIC \o to_le_bytes(HEADER_VERSION, 2) \o <<KDF_ARGON2ID>>
        \o <<AEAD_AES256GCM>> \o to_le_bytes(m_cost_kib, 4)
        \o to_le_bytes(t_cost, 4) \o to_le_bytes(p, 4) \o salt \o nonce

KeviHeader(data) ==
    [version |-> from_le_bytes(SubSeq(data, 5, 6)),
     kdf_id |-> data[7],
     aead_id |-> data[8],
     m_cost_kib |-> from_le_bytes(SubSeq(data, 9, 12)),
     t_cost |-> from_le_bytes(SubSeq(data, 13, 16)),
     p_lanes |-> from_le_bytes(SubSeq(data, 17, 20)),
     salt |-> SubSeq(data, 21, 20 + SALT_LEN),
     nonce |-> SubSeq(data, 21 + SALT_LEN, 20 + SALT_LEN + NONCE_LEN)]

NoHeader ==
    [version |-> 0, kdf_id |-> 0, aead_id |-> 0, m_cost_kib |-> 0,
     t_cost |-> 0, p_lanes |-> 0, salt |-> <<>>, nonce |-> <<>>]

HeaderErr(kind, arg) ==
    [ok |-> FALSE, err |-> kind, arg |-> arg, hdr |-> NoHeader, off |-> 0]

ParseKdfFirst(data) ==
    IF Len(data) < MIN_LEN THEN HeaderErr("TooShort", 0)
    ELSE IF SubSeq(data, 1, 4) # HEADER_MAGIC THEN HeaderErr("InvalidMagic", 0)
    ELSE IF data[7] # KDF_ARGON2ID THEN HeaderErr("UnsupportedKdf", data[7])
    ELSE IF from_le_bytes(SubSeq(data, 5, 6)) # HEADER_VERSION
        THEN HeaderErr("UnsupportedVersion", from_le_bytes(SubSeq(data, 5, 6)))
    ELSE IF data[8] # AEAD_AES256GCM THEN HeaderErr("UnsupportedAead", data[8])
    ELSE [ok |-> TRUE, err |-> "", arg |-> 0, hdr |-> KeviHeader(data),
          off |-> 20 + SALT_LEN + NONCE_LEN]

\* data is the file's bytes up to the ciphertext offset (a file that has a
\* body always has MIN_LEN bytes before it), so Len(data) < MIN_LEN exactly
\* when the file is shorter than MIN_LEN.
parse_kevi_header(data) ==
    IF Len(data) < MIN_LEN THEN HeaderErr("TooShort", 0)
    ELSE IF SubSeq(data, 1, 4) # HEADER_MAGIC THEN HeaderErr("InvalidMagic", 0)
    ELSE IF from_le_bytes(SubSeq(data, 5, 6)) # HEADER_VERSION
        THEN HeaderErr("UnsupportedVersion", from_le_bytes(SubSeq(data, 5, 6)))
    ELSE IF data[7] # KDF_ARGON2ID THEN HeaderErr("UnsupportedKdf", data[7])
    ELSE IF data[8] # AEAD_AES256GCM THEN HeaderErr("UnsupportedAead", data[8])
    ELSE [ok |-> TRUE, err |-> "", arg |-> 0, hdr |-> KeviHeader(data),
          off |-> 20 + SALT_LEN + NONCE_LEN]

FingerprintWithNonce(hdr) ==
    <<HEADER_MAGIC, to_le_bytes(hdr.version, 2), hdr.kdf_id, hdr.aead_id,
      to_le_bytes(hdr.m_cost_kib, 4), to_le_bytes(hdr.t_cost, 4),
      to_le_bytes(hdr.p_lanes, 4), hdr.salt, hdr.nonce>>

\* SHA-256 over magic, version, kdf_id, aead_id, m_cost_kib, t_cost,
\* p_lanes, salt; the nonce is not hashed.
header_fingerprint_excluding_nonce(hdr) ==
    <<HEADER_MAGIC, to_le_bytes(hdr.version, 2), hdr.kdf_id, hdr.aead_id,
      to_le_bytes(hdr.m_cost_kib, 4), to_le_bytes(hdr.t_cost, 4),
      to_le_bytes(hdr.p_lanes, 4), hdr.salt>>

(***************************************************************************)
(* Key derivation.                                                         *)
(***************************************************************************)
NoKey == [pw |-> "", salt |-> <<>>, m |-> 0, t |-> 0, p |-> 0]

\* Params::new rejects p = 0, p > 2^24 - 1, t = 0 and m < 8 * p.
ParamsOk(m_cost_kib, t_cost, p) ==
    /\ p # 0
    /\ p > 0 /\ p <= Pow2(24) - 1
    /\ t_cost # 0
    /\ m_cost_kib < 0 \/ m_cost_kib >= 8 * p

derive_key_argon2id(password, salt, m_cost_kib, t_cost, p) ==
    IF ~ParamsOk(m_cost_kib, t_cost, p)
    THEN [ok |-> FALSE, err |-> "InvalidKdfParams", key |-> NoKey]
    ELSE [ok |-> TRUE, err |-> "",
          key |-> [pw |-> password, salt |-> salt, m |-> m_cost_kib,
                   t |-> t_cost, p |-> p]]

(***************************************************************************)
(* AEAD engine.  A file is the bytes before the ciphertext offset (raw)    *)
(* followed by ciphertext and tag (body).  A file that is not a container  *)
(* (plaintext, a truncated header, an empty file) has all its bytes in raw *)
(* and no body.                                                            *)
(***************************************************************************)
NoBody == [k |-> "none"]

Absent == [kind |-> "absent", raw |-> <<>>, body |-> NoBody]

File(raw, body) == [kind |-> "file", raw |-> raw, body |-> body]

\* seal_in_place_append_tag: ciphertext and tag of pt under key and nonce,
\* bound to aad.  flip is 0 until a bit of ciphertext or tag is changed.
Seal(key, nonce, aad, pt) ==
    [k |-> "aead", key |-> key, nonce |-> nonce, aad |-> aad, pt |-> pt,
     flip |-> 0]

BodyLen(body) ==
    IF body.k = "aead" THEN Len(body.pt) + TAG_LEN
    ELSE IF body.k = "none" THEN 0
    ELSE 1

DataLen(file) == Len(file.raw) + BodyLen(file.body)

OpenFails == [ok |-> FALSE, err |-> "DecryptionFailed", pt |-> <<>>]

OpenIgnoringTag(body, key, nonce, aad) ==
    IF body.k = "aead" /\ body.key = key /\ body.nonce = nonce /\ body.aad = aad
    THEN [ok |-> TRUE, err |-> "", pt |-> body.pt]
    ELSE OpenFails

OpenIgnoringKey(body, key, nonce, aad) ==
    IF body.k = "aead" /\ body.flip = 0 /\ body.nonce = nonce /\ body.aad = aad
    THEN [ok |-> TRUE, err |-> "", pt |-> body.pt]
    ELSE OpenFails

\* open_in_place: every authentication failure is the one error.
open_in_place(body, key, nonce, aad) ==
    IF /\ body.k = "aead"
       /\ body.flip = 0
       /\ body.key = key
       /\ body.nonce = nonce
       /\ body.aad = aad
    THEN [ok |-> TRUE, err |-> "", pt |-> body.pt]
    ELSE OpenFails

encrypt_vault_with_key(data, m_cost_kib, t_cost, p_lanes, salt, derived_key, nonce_bytes) ==
    LET header == build_header(salt, nonce_bytes, m_cost_kib, t_cost, p_lanes)
    IN  File(header, Seal(derived_key, nonce_bytes, header, data))

Failed(err) == [ok |-> FALSE, err |-> err, pt |-> <<>>]

OpenParsed(file, derived_key, h) ==
    IF ~h.ok THEN Failed(h.err)
    ELSE open_in_place(file.body, derived_key,
                       SubSeq(file.raw, h.off - NONCE_LEN + 1, h.off),
                       SubSeq(file.raw, 1, h.off))

decrypt_vault_with_key(file, derived_key) ==
    OpenParsed(file, derived_key, parse_kevi_header(file.raw))

\* Passphrase-only helpers: default parameters and a salt of their own.
EncryptDerived(data, dp, salt, k, nonce_bytes) ==
    encrypt_vault_with_key(data, dp.m_cost_kib, dp.t_cost, dp.p_lanes,
                           salt, k.key, nonce_bytes)

encrypt_vault(data, password, salt, nonce_bytes) ==
    EncryptDerived(data, default_params, salt,
                   derive_key_argon2id(password, salt, default_params.m_cost_kib,
                                       default_params.t_cost,
                                       default_params.p_lanes),
                   nonce_bytes)

DeriveForHeader(password, hdr) ==
    derive_key_argon2id(password, hdr.salt, hdr.m_cost_kib, hdr.t_cost, hdr.p_lanes)

DecryptDerived(file, k) ==
    IF ~k.ok THEN Failed(k.err) ELSE decrypt_vault_with_key(file, k.key)

DecryptParsed(file, password, h) ==
    IF ~h.ok THEN Failed(h.err)
    ELSE DecryptDerived(file, DeriveForHeader(password, h.hdr))

decrypt_vault(file, password) ==
    DecryptParsed(file, password, parse_kevi_header(file.raw))

(***************************************************************************)
(* Record codec (RON).  A string is a sequence of characters; the encoded  *)
(* text is a sequence of tokens, a string literal being a quote, the       *)
(* escaped characters and a quote.  An Option is a sequence of length 0    *)
(* (None) or 1 (Some).                                                     *)
(***************************************************************************)
DQ == "\""
BS == "\\"
None == <<>>
Some(x) == <<x>>

VaultEntry(label, username, password, notes) ==
    [label |-> label, username |-> username, password |-> password,
     notes |-> notes]

EscapeNone(c) == <<c>>

EscapeChar(c) ==
    IF c = DQ THEN <<BS, DQ>> ELSE IF c = BS THEN <<BS, BS>> ELSE <<c>>

RECURSIVE EscapeStr(_)
EscapeStr(s) ==
    IF s = <<>> THEN <<>> ELSE EscapeChar(Head(s)) \o EscapeStr(Tail(s))

serialize_str(s) == <<DQ>> \o EscapeStr(s) \o <<DQ>>

serialize_option(o) ==
    IF o = None THEN <<"None">>
    ELSE <<"Some(">> \o serialize_str(o[1]) \o <<")">>

serialize_entry(e) ==
    <<"(", "label:">> \o serialize_str(e.label)
        \o <<",", "username:">> \o serialize_option(e.username)
        \o <<",", "password:">> \o serialize_str(e.password)
        \o <<",", "notes:">> \o serialize_option(e.notes)
        \o <<",", ")">>

\* enumerate_arrays(true) writes the index of each element as a comment.
RECURSIVE serialize_items(_, _)
serialize_items(entries, i) ==
    IF i > Len(entries) THEN <<>>
    ELSE <<"/*[", ToString(i - 1), "]*/">> \o serialize_entry(entries[i])
            \o <<",">> \o serialize_items(entries, i + 1)

encode(entries) == <<"[">> \o serialize_items(entries, 1) \o <<"]">>

ParseFail == [ok |-> FALSE, val |-> <<>>, next |-> 0]

Tok(s, i) == IF i >= 1 /\ i <= Len(s) THEN s[i] ELSE "<eof>"

RECURSIVE ParseStrBody(_, _, _)
ParseStrBody(s, i, acc) ==
    IF i > Len(s) THEN ParseFail
    ELSE IF s[i] = DQ THEN [ok |-> TRUE, val |-> acc, next |-> i + 1]
    ELSE IF s[i] = BS
        THEN IF Tok(s, i + 1) \in {DQ, BS}
             THEN ParseStrBody(s, i + 2, Append(acc, s[i + 1]))
             ELSE ParseFail
    ELSE ParseStrBody(s, i + 1, Append(acc, s[i]))

deserialize_str(s, i) ==
    IF Tok(s, i) = DQ THEN ParseStrBody(s, i + 1, <<>>) ELSE ParseFail

\* Each step of the parser is an operator of the values parsed so far.
OptionOf(s, r) ==
    IF r.ok /\ Tok(s, r.next) = ")"
    THEN [ok |-> TRUE, val |-> Some(r.val), next |-> r.next + 1]
    ELSE ParseFail

deserialize_option(s, i) ==
    IF Tok(s, i) = "None" THEN [ok |-> TRUE, val |-> None, next |-> i + 1]
    ELSE IF Tok(s, i) = "Some(" THEN OptionOf(s, deserialize_str(s, i + 1))
    ELSE ParseFail

EntryClose(l, u, p, n, s) ==
    IF n.ok /\ Tok(s, n.next) = "," /\ Tok(s, n.next + 1) = ")"
    THEN [ok |-> TRUE, val |-> VaultEntry(l.val, u.val, p.val, n.val),
          next |-> n.next + 2]
    ELSE ParseFail

EntryNotes(l, u, p, s) ==
    IF p.ok /\ Tok(s, p.next) = "," /\ Tok(s, p.next + 1) = "notes:"
    THEN EntryClose(l, u, p, deserialize_option(s, p.next + 2), s)
    ELSE ParseFail

EntryPassword(l, u, s) ==
    IF u.ok /\ Tok(s, u.next) = "," /\ Tok(s, u.next + 1) = "password:"
    THEN EntryNotes(l, u, deserialize_str(s, u.next + 2), s)
    ELSE ParseFail

EntryUsername(l, s) ==
    IF l.ok /\ Tok(s, l.next) = "," /\ Tok(s, l.next + 1) = "username:"
    THEN EntryPassword(l, deserialize_option(s, l.next + 2), s)
    ELSE ParseFail

deserialize_entry(s, i) ==
    IF Tok(s, i) = "(" /\ Tok(s, i + 1) = "label:"
    THEN EntryUsername(deserialize_str(s, i + 2), s)
    ELSE ParseFail

\* Comments are skipped wherever an element may start.
SkipComment(s, i) ==
    IF Tok(s, i) = "/*[" /\ Tok(s, i + 2) = "]*/" THEN i + 3 ELSE i

RECURSIVE deserialize_items(_, _, _)
ItemsAfter(s, e, acc) ==
    IF e.ok /\ Tok(s, e.next) = ","
    THEN deserialize_items(s, e.next + 1, Append(acc, e.val))
    ELSE ParseFail

deserialize_items(s, i, acc) ==
    IF Tok(s, i) = "]" THEN [ok |-> TRUE, val |-> acc, next |-> i + 1]
    ELSE ItemsAfter(s, deserialize_entry(s, SkipComment(s, i)), acc)

Decoded(data, r) ==
    IF r.ok /\ r.next = Len(data) + 1
    THEN [ok |-> TRUE, err |-> "", val |-> r.val]
    ELSE [ok |-> FALSE, err |-> "DecodeError", val |-> <<>>]

decode(data) ==
    Decoded(data, IF Tok(data, 1) = "[" THEN deserialize_items(data, 2, <<>>)
                  ELSE ParseFail)

(***************************************************************************)
(* State.                                                                  *)
(***************************************************************************)
VARIABLES
    fs,           \* the directory of the vault: file name -> contents
    ext,          \* extension of the vault file name
    backups,      \* FileByteStore.backups
    wpc,          \* position of a byte-store write in progress
    wi,           \* loop index of the backup shift
    wbytes,       \* contents handed to the write in progress (or the last one)
    nStarted,     \* byte-store writes started
    committed,    \* contents of the writes that returned, oldest first
    crashed,      \* some write was interrupted
    interrupted,  \* the last write was interrupted and nothing ran since
    wbase,        \* the write in progress found the last committed contents at path
    now,          \* wall clock, seconds
    lastOp,       \* the last operation: its inputs, what it read, its result
    saved,        \* the records and key of the last successful save, while its file stands
    draws,        \* nonces drawn from the random source, oldest first
    written,      \* key, salt and nonce of every container written, oldest first
    ops,          \* vault writes performed
    touched,      \* the vault file was changed from outside the engine
    writers,      \* byte-store writes running side by side: each one's position
    perm,         \* permission bits of the directory and of the files in it
    clip,         \* the clipboard and the restore scheduled by copy_with_ttl
    app           \* the terminal interface: App of tui/app.rs, or none running

storeVars == <<fs, ext, backups, app, writers, perm, clip, wpc, wi, wbytes, nStarted, committed, crashed,
               interrupted, wbase>>

svcVars == <<now, lastOp, saved, draws, written, ops, touched>>

vars == <<fs, ext, backups, app, writers, perm, clip, wpc, wi, wbytes, nStarted, committed, crashed,
          interrupted, wbase, now, lastOp, saved, draws, written, ops, touched>>

(***************************************************************************)
(* File names of the vault's directory.  P is the vault path, i >= 1 is    *)
(* the backup path.i, TMP is the vault's file stem with the extension tmp, *)
(* SESS the stem with the extension dksession.                             *)
(***************************************************************************)
P == 0
TMP == 0 - 1
SESS == 0 - 2
Names == SESS..(MaxN + 1)
Exts == {"ron", "tmp"}

backup_path(n) == n

\* Path::with_extension("tmp") replaces the extension of the file name: the
\* vault path and its session path share one temporary name, and a vault
\* path that already ends in .tmp is its own temporary name.
tmp_path(path, e) == IF path = P /\ e # "tmp" THEN TMP
                     ELSE IF path = P THEN P
                     ELSE IF e = "tmp" THEN P ELSE TMP

exists(f, n) == f[n] # Absent

\* A directory where a file is expected: it exists, it cannot be read or
\* removed as a file, and no file can be renamed over it.
Dir == [kind |-> "dir", raw |-> <<>>, body |-> NoBody]

IsDir(f, n) == f[n] = Dir

remove_file(f, n) == IF IsDir(f, n) THEN f ELSE [f EXCEPT ![n] = Absent]

\* fs::rename replaces dst; a missing src is an error the callers ignore.
rename(f, src, dst) ==
    IF ~exists(f, src) \/ src = dst \/ IsDir(f, dst) THEN f
    ELSE [f EXCEPT ![dst] = f[src], ![src] = Absent]

\* File::create: create or truncate.
file_create(f, n) == [f EXCEPT ![n] = File(<<>>, NoBody)]

\* write_all proceeds in chunks; the body follows the last byte before it.
NextChunk(cur, bytes) ==
    IF Len(cur.raw) + 1 < Len(bytes.raw)
    THEN File(SubSeq(bytes.raw, 1, Len(cur.raw) + 1), NoBody)
    ELSE bytes

write_all(f, n, bytes) == [f EXCEPT ![n] = bytes]

\* The final rename is the step that fails when path cannot be replaced.
atomic_write_fails(f, path) == IsDir(f, path)

atomic_write_secure(f, path, bytes, e) ==
    LET t == tmp_path(path, e)
    IN  rename(write_all(file_create(f, t), t, bytes), t, path)

(***************************************************************************)
(* Byte store: write_with_backups_n, step by step and as a whole.          *)
(***************************************************************************)
RotationEnabledAboveOne(n) == n > 1

RotationEnabled(n) == n > 0

RemoveOldest(f, n) == remove_file(f, backup_path(n))

ShiftStart(n) == n - 1

ShiftOneSkipped(f, i) == f

ShiftOne(f, i) ==
    IF exists(f, backup_path(i))
    THEN rename(f, backup_path(i), backup_path(i + 1))
    ELSE f

RECURSIVE ShiftLoop(_, _)
ShiftLoop(f, i) == IF i < 1 THEN f ELSE ShiftLoop(ShiftOne(f, i), i - 1)

MoveCurrentRemoves(f) == remove_file(f, P)

MoveCurrent(f) == IF exists(f, P) THEN rename(f, P, backup_path(1)) ELSE f

write_with_backups_n(f, bytes, n, e) ==
    LET rotated == IF RotationEnabled(n)
                   THEN MoveCurrent(ShiftLoop(RemoveOldest(f, n), ShiftStart(n)))
                   ELSE f
    IN  atomic_write_secure(rotated, P, bytes, e)

\* FileByteStore::read: an absent file reads as no bytes.
StoreRead(f) == IF exists(f, P) THEN f[P] ELSE File(<<>>, NoBody)

IsEmpty(file) == DataLen(file) = 0

\* Contents of the k-th write of the byte-store specification.
Bytes(k) == File(<<k, k>>, NoBody)

LastCommitted == IF committed = <<>> THEN Absent ELSE committed[Len(committed)]

\* The key buffer of load and save (key_arr) as the function leaves it:
\* what it holds and whether it is still locked in memory.
Wiped == [bytes |-> NoKey, locked |-> FALSE]

OpRes(op, ok, err, val, key, read, salt, nonce) ==
    [op |-> op, ok |-> ok, err |-> err, val |-> val, key |-> key,
     read |-> read, salt |-> salt, nonce |-> nonce,
     asked |-> FALSE, sess |-> Absent, pw |-> "", arg |-> <<>>,
     removed |-> FALSE, key_arr |-> Wiped]

\* What else an operation leaves on record: whether the passphrase source
\* was invoked and what it supplied, the session file found, an argument.
Rec(res, asked, sess, pw, arg) ==
    [res EXCEPT !.asked = asked, !.sess = sess, !.pw = pw, !.arg = arg]

NoOp == OpRes("none", TRUE, "", <<>>, NoKey, Absent, 0, 0)

NoTamper == [kind |-> "none", bit |-> 0]

NothingSaved == [valid |-> FALSE, R |-> <<>>, key |-> NoKey]

\* No write runs beside another; permission bits and the clipboard are
\* followed by the specifications about them.
NoPerm == <<>>

NoClip == <<>>

NoApp == <<>>

IdleStore ==
    /\ fs = [n \in Names |-> Absent]
    /\ wpc = "idle"
    /\ wi = 0
    /\ wbytes = Absent
    /\ nStarted = 0
    /\ committed = <<>>
    /\ crashed = FALSE
    /\ interrupted = FALSE
    /\ wbase = FALSE
    /\ writers = <<>>
    /\ perm = NoPerm
    /\ clip = NoClip
    /\ app = NoApp

IdleService ==
    /\ now = 0
    /\ lastOp = NoOp
    /\ saved = NothingSaved
    /\ draws = <<>>
    /\ written = <<>>
    /\ ops = 0
    /\ touched = NoTamper

StoreInit ==
    /\ IdleStore
    /\ IdleService
    /\ ext \in Exts
    /\ backups \in 0..MaxN

StartWrite ==
    /\ wpc = "idle"
    /\ nStarted < MaxWrites
    /\ nStarted' = nStarted + 1
    /\ wbytes' = Bytes(nStarted + 1)
    /\ wbase' = (committed # <<>> /\ fs[P] = LastCommitted)
    /\ interrupted' = FALSE
    /\ wpc' = IF RotationEnabled(backups) THEN "remove_oldest" ELSE "create_tmp"
    /\ UNCHANGED <<fs, ext, backups, app, writers, perm, clip, wi, committed, crashed>>
    /\ UNCHANGED svcVars

RemoveOldestStep ==
    /\ wpc = "remove_oldest"
    /\ fs' = RemoveOldest(fs, backups)
    /\ wi' = ShiftStart(backups)
    /\ wpc' = IF ShiftStart(backups) >= 1 THEN "shift" ELSE "move_current"
    /\ UNCHANGED <<ext, backups, app, writers, perm, clip, wbytes, nStarted, committed, crashed,
                   interrupted, wbase>>
    /\ UNCHANGED svcVars

ShiftStep ==
    /\ wpc = "shift"
    /\ fs' = ShiftOne(fs, wi)
    /\ wi' = wi - 1
    /\ wpc' = IF wi - 1 >= 1 THEN "shift" ELSE "move_current"
    /\ UNCHANGED <<ext, backups, app, writers, perm, clip, wbytes, nStarted, committed, crashed,
                   interrupted, wbase>>
    /\ UNCHANGED svcVars

MoveCurrentStep ==
    /\ wpc = "move_current"
    /\ fs' = MoveCurrent(fs)
    /\ wpc' = "create_tmp"
    /\ UNCHANGED <<ext, backups, app, writers, perm, clip, wi, wbytes, nStarted, committed, crashed,
                   interrupted, wbase>>
    /\ UNCHANGED svcVars

CreateTmpStep ==
    /\ wpc = "create_tmp"
    /\ fs' = file_create(fs, tmp_path(P, ext))
    /\ wpc' = "write_tmp"
    /\ UNCHANGED <<ext, backups, app, writers, perm, clip, wi, wbytes, nStarted, committed, crashed,
                   interrupted, wbase>>
    /\ UNCHANGED svcVars

WriteTmpStep ==
    /\ wpc = "write_tmp"
    /\ LET t == tmp_path(P, ext)
           next == NextChunk(fs[t], wbytes)
       IN  /\ fs' = write_all(fs, t, next)
           /\ wpc' = IF next = wbytes THEN "rename_tmp" ELSE "write_tmp"
    /\ UNCHANGED <<ext, backups, app, writers, perm, clip, wi, wbytes, nStarted, committed, crashed,
                   interrupted, wbase>>
    /\ UNCHANGED svcVars

RenameTmpStep ==
    /\ wpc = "rename_tmp"
    /\ fs' = rename(fs, tmp_path(P, ext), P)
    /\ wpc' = "idle"
    /\ committed' = Append(committed, wbytes)
    /\ UNCHANGED <<ext, backups, app, writers, perm, clip, wi, wbytes, nStarted, crashed, interrupted,
                   wbase>>
    /\ UNCHANGED svcVars

\* The process stops between two steps of a write; the files stay as they are.
Crash ==
    /\ wpc # "idle"
    /\ wpc' = "idle"
    /\ crashed' = TRUE
    /\ interrupted' = TRUE
    /\ UNCHANGED <<fs, ext, backups, app, writers, perm, clip, wi, wbytes, nStarted, committed, wbase>>
    /\ UNCHANGED svcVars

StoreNext ==
    \/ StartWrite
    \/ RemoveOldestStep
    \/ ShiftStep
    \/ MoveCurrentStep
    \/ CreateTmpStep
    \/ WriteTmpStep
    \/ RenameTmpStep
    \/ Crash

SpecStore == StoreInit /\ [][StoreNext]_vars

(***************************************************************************)
(* Byte-store properties.                                                  *)
(***************************************************************************)
Min(a, b) == IF a < b THEN a ELSE b

ExistingBackups == {i \in 1..(MaxN + 1) : exists(fs, backup_path(i))}

NoInterruption == wpc = "idle" /\ ~crashed

\* C7: after k successful writes from an empty directory, with no write
\* interrupted, the backups that exist are exactly path.1 .. path.min(k-1, N);
\* path.(N+1) never exists, in any state.
C7_BackupSetExact ==
    /\ (NoInterruption /\ Len(committed) >= 1)
          => ExistingBackups = 1..Min(Len(committed) - 1, backups)
    /\ ~exists(fs, backup_path(backups + 1))

C7_Witness ==
    /\ NoInterruption
    /\ backups = 2
    /\ Len(committed) = 4
    /\ ExistingBackups = {1, 2}

\* C8: after k successful writes of c1..ck, with no write interrupted, path
\* holds ck and path.i holds c(k-i) for every i in 1..min(k-1, N).
C8_BackupOrder ==
    (NoInterruption /\ Len(committed) >= 1)
        => /\ fs[P] = committed[Len(committed)]
           /\ \A i \in 1..Min(Len(committed) - 1, backups) :
                 fs[backup_path(i)] = committed[Len(committed) - i]

C8_Witness ==
    /\ NoInterruption
    /\ backups = 2
    /\ Len(committed) = 3
    /\ fs[P] = Bytes(3)
    /\ fs[backup_path(1)] = Bytes(2)
    /\ fs[backup_path(2)] = Bytes(1)

\* C9 (as claimed): whatever file exists at path holds, in full, the last
\* committed contents or the contents of the write in progress.
C9_PathNeverPartial ==
    exists(fs, P) => (fs[P] = LastCommitted \/ fs[P] = wbytes)

\* C10: with N >= 1, a write that found the last committed contents at path
\* keeps them, in full, at path or at path.1 until its final rename, also
\* when it is interrupted.
C10_CommittedRecoverable ==
    (backups >= 1 /\ wbase /\ (wpc # "idle" \/ interrupted))
        => (fs[P] = LastCommitted \/ fs[backup_path(1)] = LastCommitted)

C10_Witness ==
    /\ backups >= 1
    /\ wbase
    /\ interrupted
    /\ fs[P] # LastCommitted
    /\ fs[backup_path(1)] = LastCommitted

(***************************************************************************)
(* Derived-key session cache (session_management/session.rs).              *)
(***************************************************************************)
base64_encode(key) == [b64 |-> TRUE, len |-> KEY_LEN, bytes |-> key]

DerivedKeyStored(fingerprint, key) ==
    [header_fingerprint_hex |-> fingerprint, key_b64 |-> base64_encode(key)]

NoStored == [header_fingerprint_hex |-> <<>>, key_b64 |-> [b64 |-> FALSE, len |-> 0, bytes |-> NoKey]]

SessionEnvelope(expires_at_unix, data) ==
    File(<<>>, [k |-> "sess", expires_at_unix |-> expires_at_unix, data |-> data])

session_save(f, path, data, ttl, t, e) ==
    atomic_write_secure(f, path, SessionEnvelope(t + ttl, data), e)

Loaded(f, ok, some, data) == [fs |-> f, ok |-> ok, some |-> some, data |-> data]

session_load_strict(f, path, t) ==
    IF ~exists(f, path) THEN Loaded(f, TRUE, FALSE, NoStored)
    ELSE IF IsDir(f, path) THEN Loaded(f, FALSE, FALSE, NoStored)
    ELSE IF f[path].body.k # "sess" THEN Loaded(f, FALSE, FALSE, NoStored)
    ELSE IF t >= f[path].body.expires_at_unix
        THEN Loaded(remove_file(f, path), TRUE, FALSE, NoStored)
    ELSE Loaded(f, TRUE, TRUE, f[path].body.data)

session_load_late(f, path, t) ==
    IF ~exists(f, path) THEN Loaded(f, TRUE, FALSE, NoStored)
    ELSE IF IsDir(f, path) THEN Loaded(f, FALSE, FALSE, NoStored)
    ELSE IF f[path].body.k # "sess"
        THEN Loaded(remove_file(f, path), TRUE, FALSE, NoStored)
    ELSE IF t > f[path].body.expires_at_unix
        THEN Loaded(remove_file(f, path), TRUE, FALSE, NoStored)
    ELSE Loaded(f, TRUE, TRUE, f[path].body.data)

session_load(f, path, t) ==
    IF ~exists(f, path) THEN Loaded(f, TRUE, FALSE, NoStored)
    ELSE IF IsDir(f, path) THEN Loaded(f, FALSE, FALSE, NoStored)
    ELSE IF f[path].body.k # "sess"
        THEN Loaded(remove_file(f, path), TRUE, FALSE, NoStored)
    ELSE IF t >= f[path].body.expires_at_unix
        THEN Loaded(remove_file(f, path), TRUE, FALSE, NoStored)
    ELSE Loaded(f, TRUE, TRUE, f[path].body.data)

ClearSessionsOnly(f, path) ==
    IF f[path].body.k = "sess" THEN remove_file(f, path) ELSE f

session_clear(f, path) == IF exists(f, path) THEN remove_file(f, path) ELSE f

(***************************************************************************)
(* Cached key resolver (session_management/resolver.rs).  pw is what the   *)
(* passphrase source supplies when it is asked.                            *)
(***************************************************************************)
Passphrases == {"pw", "bad"}

ttl_secs == DEFAULT_TTL

\* asked: the passphrase source was invoked.
Resolved(f, ok, err, key, asked) ==
    [fs |-> f, ok |-> ok, err |-> err, key |-> key, asked |-> asked]

CacheHitAnyFingerprint(l, fp) ==
    /\ l.some
    /\ l.data.key_b64.b64
    /\ l.data.key_b64.len >= KEY_LEN

CacheHit(l, fp) ==
    /\ l.some
    /\ l.data.header_fingerprint_hex = fp
    /\ l.data.key_b64.b64
    /\ l.data.key_b64.len >= KEY_LEN

DeriveAndCache(f, fp, k, t, e) ==
    IF ~k.ok THEN Resolved(f, FALSE, k.err, NoKey, TRUE)
    ELSE IF atomic_write_fails(f, SESS)
        THEN Resolved(session_save(f, SESS, DerivedKeyStored(fp, k.key), ttl_secs, t, e),
                      FALSE, "SessionWriteFailed", NoKey, TRUE)
    ELSE Resolved(session_save(f, SESS, DerivedKeyStored(fp, k.key), ttl_secs, t, e),
                  TRUE, "", k.key, TRUE)

\* A resolver that renews the session on every hit.
ResolveLoadedRenewing(l, fp, hdr, pw, t, e) ==
    IF ~l.ok THEN Resolved(l.fs, FALSE, "SessionReadFailed", NoKey, FALSE)
    ELSE IF CacheHit(l, fp)
        THEN Resolved(session_save(l.fs, SESS, l.data, ttl_secs, t, e),
                      TRUE, "", l.data.key_b64.bytes, FALSE)
    ELSE DeriveAndCache(l.fs, fp, DeriveForHeader(pw, hdr), t, e)

ResolveLoaded(l, fp, hdr, pw, t, e) ==
    IF ~l.ok THEN Resolved(l.fs, FALSE, "SessionReadFailed", NoKey, FALSE)
    ELSE IF CacheHit(l, fp)
        THEN Resolved(l.fs, TRUE, "", l.data.key_b64.bytes, FALSE)
    ELSE DeriveAndCache(l.fs, fp, DeriveForHeader(pw, hdr), t, e)

resolve_for_header(f, hdr, pw, t, e) ==
    ResolveLoaded(session_load(f, SESS, t), header_fingerprint_excluding_nonce(hdr),
                  hdr, pw, t, e)

NewVaultHeaderSaltless(params, salt) ==
    [version |-> HEADER_VERSION, kdf_id |-> KDF_ARGON2ID,
     aead_id |-> AEAD_AES256GCM, m_cost_kib |-> params.m_cost_kib,
     t_cost |-> params.t_cost, p_lanes |-> params.p_lanes,
     salt |-> [i \in 1..SALT_LEN |-> 0], nonce |-> [i \in 1..NONCE_LEN |-> 0]]

NewVaultHeader(params, salt) ==
    [version |-> HEADER_VERSION, kdf_id |-> KDF_ARGON2ID,
     aead_id |-> AEAD_AES256GCM, m_cost_kib |-> params.m_cost_kib,
     t_cost |-> params.t_cost, p_lanes |-> params.p_lanes,
     salt |-> salt, nonce |-> [i \in 1..NONCE_LEN |-> 0]]

resolve_for_new_vault(f, params, salt, pw, t, e) ==
    DeriveAndCache(f, header_fingerprint_excluding_nonce(NewVaultHeader(params, salt)),
                   DeriveForHeader(pw, NewVaultHeader(params, salt)), t, e)

(***************************************************************************)
(* The cached resolver of core/adapters.rs, which the terminal interface   *)
(* is built with, over read_dk_session of core/dk_session.rs.  A slice     *)
(* vec[..KEY_LEN] of a shorter vector panics.                              *)
(***************************************************************************)
Panicked == "Panicked"

read_dk_session(f, path, t) ==
    IF ~exists(f, path) THEN Loaded(f, TRUE, FALSE, NoStored)
    ELSE IF IsDir(f, path) THEN Loaded(f, TRUE, FALSE, NoStored)
    ELSE IF f[path].body.k # "sess"
        THEN Loaded(remove_file(f, path), TRUE, FALSE, NoStored)
    ELSE IF t >= f[path].body.expires_at_unix
        THEN Loaded(remove_file(f, path), TRUE, FALSE, NoStored)
    ELSE IF ~f[path].body.data.key_b64.b64
        THEN Loaded(remove_file(f, path), TRUE, FALSE, NoStored)
    ELSE Loaded(f, TRUE, TRUE, f[path].body.data)

AdapterCopied(l) ==
    IF l.data.key_b64.len < KEY_LEN
    THEN Resolved(l.fs, FALSE, Panicked, NoKey, FALSE)
    ELSE Resolved(l.fs, TRUE, "", l.data.key_b64.bytes, FALSE)

AdapterLoaded(l, fp, hdr, pw, t, e) ==
    IF l.some /\ l.data.header_fingerprint_hex = fp THEN AdapterCopied(l)
    ELSE DeriveAndCache(l.fs, fp, DeriveForHeader(pw, hdr), t, e)

adapters_resolve_for_header(f, hdr, pw, t, e) ==
    AdapterLoaded(read_dk_session(f, SESS, t),
                  header_fingerprint_excluding_nonce(hdr), hdr, pw, t, e)

(***************************************************************************)
(* Bypass resolver: always asks, never touches the session file.  A        *)
(* VaultService holds one of the two resolvers (kr).                       *)
(***************************************************************************)
BypassDerived(f, k) == Resolved(f, k.ok, k.err, k.key, TRUE)

bypass_resolve_for_header(f, hdr, pw) == BypassDerived(f, DeriveForHeader(pw, hdr))

bypass_resolve_for_new_vault(f, params, salt, pw) ==
    BypassDerived(f, DeriveForHeader(pw, NewVaultHeader(params, salt)))

KeyResolvers == {"cached", "bypass"}

AlwaysCachedForHeader(kr, f, hdr, pw, t, e) == resolve_for_header(f, hdr, pw, t, e)

key_resolver_for_header(kr, f, hdr, pw, t, e) ==
    IF kr = "bypass" THEN bypass_resolve_for_header(f, hdr, pw)
    ELSE IF kr = "adapters" THEN adapters_resolve_for_header(f, hdr, pw, t, e)
    ELSE resolve_for_header(f, hdr, pw, t, e)

key_resolver_for_new_vault(kr, f, params, salt, pw, t, e) ==
    IF kr = "bypass" THEN bypass_resolve_for_new_vault(f, params, salt, pw)
    ELSE resolve_for_new_vault(f, params, salt, pw, t, e)

(***************************************************************************)
(* Vault service (core/service.rs).  Each step of load and save is an      *)
(* operator of the values the function has bound so far.                   *)
(***************************************************************************)
Outcome(f, ok, err, val, key) ==
    [fs |-> f, ok |-> ok, err |-> err, val |-> val, key |-> key, asked |-> FALSE,
     key_arr |-> Wiped]

\* A return between lock_slice and the unlock_slice / zeroize pair: the
\* buffer goes out of scope as it is.
ReturnedEarly(out, key) == [out EXCEPT !.key_arr = [bytes |-> key, locked |-> TRUE]]

\* The outcome of a call that went through the key resolver.
Through(dk, out) == [out EXCEPT !.asked = dk.asked]

HasMagicAlways(bytes) == TRUE

HasMagic(bytes) == starts_with(bytes.raw, HEADER_MAGIC)

LoadDecoded(f, key, d) == Outcome(f, d.ok, d.err, d.val, key)

LoadDecrypted(f, key, pt) ==
    IF ~pt.ok THEN ReturnedEarly(Outcome(f, FALSE, pt.err, <<>>, key), key)
    ELSE LoadDecoded(f, key, decode(pt.pt))

LoadResolved(bytes, dk) ==
    Through(dk, IF ~dk.ok THEN Outcome(dk.fs, FALSE, dk.err, <<>>, NoKey)
                ELSE LoadDecrypted(dk.fs, dk.key,
                                   decrypt_vault_with_key(bytes, dk.key)))

LoadParsedAfterSession(kr, f, bytes, h, pw, t, e) ==
    IF ~h.ok THEN Outcome(session_load(f, SESS, t).fs, FALSE, h.err, <<>>, NoKey)
    ELSE LoadResolved(bytes, key_resolver_for_header(kr, f, h.hdr, pw, t, e))

LoadParsed(kr, f, bytes, h, pw, t, e) ==
    IF ~h.ok THEN Outcome(f, FALSE, h.err, <<>>, NoKey)
    ELSE LoadResolved(bytes, key_resolver_for_header(kr, f, h.hdr, pw, t, e))

LoadBytes(kr, f, bytes, pw, t, e) ==
    IF IsEmpty(bytes) THEN Outcome(f, TRUE, "", <<>>, NoKey)
    ELSE IF ~HasMagic(bytes) THEN Outcome(f, FALSE, "UnsupportedFormat", <<>>, NoKey)
    ELSE LoadParsed(kr, f, bytes, parse_kevi_header(bytes.raw), pw, t, e)

VaultService_load(kr, f, pw, t, e) == LoadBytes(kr, f, StoreRead(f), pw, t, e)

\* The salt a save over an existing vault encrypts under.
FreshSalt(hdr, fresh) == fresh

ReusedSalt(hdr, fresh) == hdr.salt

SaveSealed(plain, params, salt, dk, nonce_bytes, n, e) ==
    Through(dk,
        IF ~dk.ok THEN Outcome(dk.fs, FALSE, dk.err, <<>>, NoKey)
        ELSE Outcome(write_with_backups_n(dk.fs,
                         encrypt_vault_with_key(plain, params.m_cost_kib, params.t_cost,
                                                params.p_lanes, salt, dk.key, nonce_bytes),
                         n, e),
                     TRUE, "", <<>>, dk.key))

SaveExisting(kr, f, plain, h, pw, fresh, nonce_bytes, t, e, n) ==
    IF ~h.ok THEN Outcome(f, FALSE, h.err, <<>>, NoKey)
    ELSE SaveSealed(plain, h.hdr, ReusedSalt(h.hdr, fresh),
                    key_resolver_for_header(kr, f, h.hdr, pw, t, e),
                    nonce_bytes, n, e)

SaveNew(kr, f, plain, pw, fresh, nonce_bytes, t, e, n) ==
    SaveSealed(plain, default_params, fresh,
               key_resolver_for_new_vault(kr, f, default_params, fresh, pw, t, e),
               nonce_bytes, n, e)

SaveBytes(kr, f, plain, bytes, pw, fresh, nonce_bytes, t, e, n) ==
    IF ~IsEmpty(bytes)
    THEN SaveExisting(kr, f, plain, parse_kevi_header(bytes.raw), pw, fresh,
                      nonce_bytes, t, e, n)
    ELSE SaveNew(kr, f, plain, pw, fresh, nonce_bytes, t, e, n)

VaultService_save(kr, f, entries, pw, fresh, nonce_bytes, t, e, n) ==
    SaveBytes(kr, f, encode(entries), StoreRead(f), pw, fresh, nonce_bytes, t, e, n)

\* add_entry and remove_entry: load, change the list, save.  pw is the first
\* answer of the passphrase source and pw2 the second, so the save is
\* answered pw2 only when the load has asked.  val is the list the load
\* returned.
EntryOutcome(out, asked, val, removed) ==
    [fs |-> out.fs, ok |-> out.ok, err |-> out.err, val |-> val,
     key |-> out.key, asked |-> asked \/ out.asked,
     removed |-> removed /\ out.ok]

NextAnswer(l, pw, pw2) == IF l.asked THEN pw2 ELSE pw

AddLoadedReplacing(kr, l, entry, pw, pw2, fresh, nonce_bytes, t, e, n) ==
    IF ~l.ok THEN EntryOutcome(l, FALSE, <<>>, FALSE)
    ELSE EntryOutcome(VaultService_save(kr, l.fs,
                          Append(SelectSeq(l.val, LAMBDA x : x.label # entry.label),
                                 entry),
                          NextAnswer(l, pw, pw2), fresh, nonce_bytes, t, e, n),
                      l.asked, l.val, FALSE)

AddLoaded(kr, l, entry, pw, pw2, fresh, nonce_bytes, t, e, n) ==
    IF ~l.ok THEN EntryOutcome(l, FALSE, <<>>, FALSE)
    ELSE EntryOutcome(VaultService_save(kr, l.fs, Append(l.val, entry),
                                        NextAnswer(l, pw, pw2), fresh,
                                        nonce_bytes, t, e, n),
                      l.asked, l.val, FALSE)

add_entry(kr, f, entry, pw, pw2, fresh, nonce_bytes, t, e, n) ==
    AddLoaded(kr, VaultService_load(kr, f, pw, t, e), entry, pw, pw2, fresh,
              nonce_bytes, t, e, n)

RetainFirstOnly(entries, label) ==
    IF \E i \in 1..Len(entries) : entries[i].label = label
    THEN [j \in 1..(Len(entries) - 1) |->
            IF j < (CHOOSE i \in 1..Len(entries) :
                       /\ entries[i].label = label
                       /\ \A k \in 1..(i - 1) : entries[k].label # label)
            THEN entries[j] ELSE entries[j + 1]]
    ELSE entries

retain(entries, label) == SelectSeq(entries, LAMBDA x : x.label # label)

RemoveRetained(kr, l, kept, pw, pw2, fresh, nonce_bytes, t, e, n) ==
    IF Len(kept) = Len(l.val) THEN EntryOutcome(l, FALSE, l.val, FALSE)
    ELSE EntryOutcome(VaultService_save(kr, l.fs, kept, NextAnswer(l, pw, pw2),
                                        fresh, nonce_bytes, t, e, n),
                      l.asked, l.val, TRUE)

RemoveLoaded(kr, l, label, pw, pw2, fresh, nonce_bytes, t, e, n) ==
    IF ~l.ok THEN EntryOutcome(l, FALSE, <<>>, FALSE)
    ELSE RemoveRetained(kr, l, retain(l.val, label), pw, pw2, fresh,
                        nonce_bytes, t, e, n)

remove_entry(kr, f, label, pw, pw2, fresh, nonce_bytes, t, e, n) ==
    RemoveLoaded(kr, VaultService_load(kr, f, pw, t, e), label, pw, pw2, fresh,
                 nonce_bytes, t, e, n)

\* store.rs load_vault_file: the passphrase-only read path.
KeyTried(password, h) ==
    IF h.ok /\ DeriveForHeader(password, h.hdr).ok
    THEN DeriveForHeader(password, h.hdr).key
    ELSE NoKey

LegacyDecrypted(f, key, data) ==
    IF ~data.ok THEN Outcome(f, FALSE, data.err, <<>>, key)
    ELSE LoadDecoded(f, key, decode(data.pt))

LegacyBytes(f, buf, password) ==
    IF IsEmpty(buf) THEN Outcome(f, TRUE, "", <<>>, NoKey)
    ELSE IF ~HasMagic(buf) THEN Outcome(f, FALSE, "UnsupportedFormat", <<>>, NoKey)
    ELSE LegacyDecrypted(f, KeyTried(password, parse_kevi_header(buf.raw)),
                         decrypt_vault(buf, password))

load_vault_file(f, password) == LegacyBytes(f, StoreRead(f), password)

(***************************************************************************)
(* Inputs of the service-level specification.                              *)
(***************************************************************************)
E1 == VaultEntry(<<"a">>, None, <<"p", DQ>>, None)
E2 == VaultEntry(<<"a">>, Some(<<"u", BS>>), <<BS, DQ>>, Some(<<"n">>))
Entries == {E1, E2}

ListsUpTo(n) == UNION {[1..k -> Entries] : k \in 0..n}
RecordLists == ListsUpTo(MaxLen)

\* Files no save wrote: fewer than four bytes, four bytes that are not the
\* magic, a plaintext record list, the magic alone, and a version-2 header.
Plaintext(entries) == File(<<91>>, [k |-> "text", pt |-> encode(entries)])

PlantedFiles ==
    { File(<<75>>, NoBody),
      File(<<75, 69, 86>>, NoBody),
      File(<<75, 69, 86, 74>>, NoBody),
      Plaintext(<<E1>>),
      File(HEADER_MAGIC, NoBody),
      File([build_header(SaltBytes(1), NonceBytes(1), 65536, 3, 1) EXCEPT ![5] = 2],
           NoBody) }

\* One bit of the file inverted: a header bit changes the byte, a bit of the
\* sealed body is remembered as the position that no longer authenticates.
Flip(file, bit) ==
    LET idx == (bit \div 8) + 1
    IN  IF idx <= Len(file.raw)
        THEN [file EXCEPT !.raw[idx] = FlipBit(file.raw[idx], bit % 8)]
        ELSE [file EXCEPT !.body.flip = bit - 8 * Len(file.raw) + 1]

WrittenHeader(f) == parse_kevi_header(f[P].raw).hdr

(***************************************************************************)
(* Service-level actions.  A save or load is the whole call: the resolver  *)
(* reads and writes the session file and the store rotates and writes.     *)
(***************************************************************************)
SaveWith(kr, entries, pw, s, n) ==
    \E rd \in {StoreRead(fs)},
       r \in {VaultService_save(kr, fs, entries, pw, SaltBytes(s), NonceBytes(n),
                                now, ext, backups)} :
        /\ wpc = "idle"
        /\ fs' = r.fs
        /\ lastOp' = [Rec(OpRes("save", r.ok, r.err, entries, r.key, rd, s, n),
                           r.asked, fs[SESS], pw, kr)
                         EXCEPT !.key_arr = r.key_arr]
        /\ saved' = IF r.ok THEN [valid |-> TRUE, R |-> entries, key |-> r.key]
                    ELSE saved
        /\ draws' = IF r.ok THEN Append(draws, n) ELSE draws
        /\ written' = IF r.ok
                      THEN Append(written, [key |-> r.key,
                                            salt |-> WrittenHeader(r.fs).salt,
                                            nonce |-> WrittenHeader(r.fs).nonce])
                      ELSE written
        /\ touched' = IF r.ok THEN NoTamper ELSE touched
        /\ ops' = ops + 1
        /\ UNCHANGED <<ext, backups, app, writers, perm, clip, wpc, wi, wbytes, nStarted, committed,
                       crashed, interrupted, wbase, now>>

SaveOp(entries, pw, s, n) == SaveWith("cached", entries, pw, s, n)

Save ==
    /\ ops < MaxOps
    /\ \E entries \in RecordLists, pw \in Passphrases,
          s \in 1..MaxSalt, n \in 1..MaxNonce : SaveOp(entries, pw, s, n)

LoadWith(kr, pw) ==
    \E r \in {VaultService_load(kr, fs, pw, now, ext)} :
        /\ wpc = "idle"
        /\ fs' = r.fs
        /\ lastOp' = [Rec(OpRes("load", r.ok, r.err, r.val, r.key,
                                 StoreRead(fs), 0, 0),
                           r.asked, fs[SESS], pw, kr)
                         EXCEPT !.key_arr = r.key_arr]
        /\ UNCHANGED <<ext, backups, app, writers, perm, clip, wpc, wi, wbytes, nStarted, committed,
                       crashed, interrupted, wbase, now, saved, draws,
                       written, ops, touched>>

Load == \E pw \in Passphrases : LoadWith("cached", pw)

LoadVaultFile ==
    \E pw \in Passphrases :
        \E r \in {load_vault_file(fs, pw)} :
            /\ wpc = "idle"
            /\ lastOp' = OpRes("load_vault_file", r.ok, r.err, r.val, r.key,
                               StoreRead(fs), 0, 0)
            /\ UNCHANGED <<fs, ext, backups, app, writers, perm, clip, wpc, wi, wbytes, nStarted,
                           committed, crashed, interrupted, wbase, now, saved,
                           draws, written, ops, touched>>

Tick ==
    /\ now < MaxTicks * TickSecs
    /\ now' = now + TickSecs
    /\ UNCHANGED <<storeVars, lastOp, saved, draws, written, ops, touched>>

\* Something other than the program replaces the vault file.
Plant ==
    /\ touched = NoTamper
    /\ ops < MaxOps
    /\ ops' = ops + 1
    /\ \E c \in PlantedFiles :
        /\ fs' = [fs EXCEPT ![P] = c]
        /\ lastOp' = OpRes("plant", TRUE, "", <<>>, NoKey, StoreRead(fs), 0, 0)
    /\ touched' = [kind |-> "plant", bit |-> 0]
    /\ saved' = [saved EXCEPT !.valid = FALSE]
    /\ UNCHANGED <<ext, backups, app, writers, perm, clip, wpc, wi, wbytes, nStarted, committed, crashed,
                   interrupted, wbase, now, draws, written>>

Init ==
    /\ IdleStore
    /\ IdleService
    /\ ext = "ron"
    /\ backups = DEFAULT_BACKUPS

Next == Save \/ Load \/ LoadVaultFile \/ Tick \/ Plant

Spec == Init /\ [][Next]_vars

(***************************************************************************)
(* Tamper specification: one vault written by one save, then one bit of    *)
(* the file inverted, then loads.                                          *)
(***************************************************************************)
\* The random source gives its first values: which salt and nonce the
\* container carries plays no part in what a flipped bit does.
TamperSave ==
    /\ ops = 0
    /\ \E entries \in ListsUpTo(1), pw \in Passphrases : SaveOp(entries, pw, 1, 1)

FlipOneBit ==
    /\ touched = NoTamper
    /\ saved.valid
    /\ \E bit \in 0..(8 * DataLen(fs[P]) - 1) :
        /\ fs' = [fs EXCEPT ![P] = Flip(fs[P], bit)]
        /\ touched' = [kind |-> "flip", bit |-> bit]
        /\ lastOp' = OpRes("flip", TRUE, "", <<>>, NoKey, fs[P], 0, 0)
    /\ saved' = [saved EXCEPT !.valid = FALSE]
    /\ UNCHANGED <<ext, backups, app, writers, perm, clip, wpc, wi, wbytes, nStarted, committed, crashed,
                   interrupted, wbase, now, draws, written, ops>>

TamperNext == TamperSave \/ FlipOneBit \/ Load \/ Tick

SpecTamper == Init /\ [][TamperNext]_vars

(***************************************************************************)
(* Service properties.                                                     *)
(***************************************************************************)
PairwiseDistinct(q) == \A i, j \in 1..Len(q) : i # j => q[i] # q[j]

UntamperedContainer(file) ==
    /\ file.body.k = "aead"
    /\ file.body.flip = 0
    /\ parse_kevi_header(file.raw).ok

\* C1: a load that resolves the key of the last successful save returns
\* exactly the record list that save was given: same records, same order,
\* same label, username, password and notes.
C1_SaveLoadRoundTrip ==
    (lastOp.op = "load" /\ saved.valid /\ lastOp.key = saved.key)
        => (lastOp.ok /\ lastOp.val = saved.R)

C1_Witness ==
    /\ lastOp.op = "load"
    /\ saved.valid
    /\ lastOp.key = saved.key
    /\ ops = 2
    /\ written[1].key = written[2].key
    /\ lastOp.val = <<E2, E1>>

C1_WitnessEmpty ==
    /\ lastOp.op = "load"
    /\ saved.valid
    /\ lastOp.key = saved.key
    /\ ~IsEmpty(lastOp.read)
    /\ lastOp.val = <<>>

\* C2: a successful save over a non-empty vault file writes a header with
\* the salt and the three cost parameters of the header it read; a first
\* write (absent or empty file) writes the salt it drew and the default
\* parameters (65536, 3, 1).
C2_SaltAndParamsReuse ==
    (lastOp.op = "save" /\ lastOp.ok) =>
        LET w == WrittenHeader(fs)
            r == parse_kevi_header(lastOp.read.raw).hdr
        IN  IF ~IsEmpty(lastOp.read)
            THEN /\ w.salt = r.salt
                 /\ w.m_cost_kib = r.m_cost_kib
                 /\ w.t_cost = r.t_cost
                 /\ w.p_lanes = r.p_lanes
            ELSE /\ w.salt = [i \in 1..SALT_LEN |-> lastOp.salt]
                 /\ w.m_cost_kib = 65536
                 /\ w.t_cost = 3
                 /\ w.p_lanes = 1

C2_Witness ==
    /\ lastOp.op = "save"
    /\ lastOp.ok
    /\ ~IsEmpty(lastOp.read)
    /\ WrittenHeader(fs).salt # [i \in 1..SALT_LEN |-> lastOp.salt]
    /\ WrittenHeader(fs).salt = parse_kevi_header(lastOp.read.raw).hdr.salt

\* C3: every successful save writes the nonce it drew from the random
\* source in the header, whatever nonce the file it read carried; so when
\* the draws never repeat, no (key, salt, nonce) triple is written twice
\* and two consecutive saves write different nonces.
C3_FreshNonce ==
    /\ (lastOp.op = "save" /\ lastOp.ok) =>
            /\ Len(draws) = Len(written)
            /\ WrittenHeader(fs).nonce = written[Len(written)].nonce
            /\ \A i \in 1..NONCE_LEN : WrittenHeader(fs).nonce[i] = lastOp.nonce
    /\ PairwiseDistinct(draws) =>
            /\ PairwiseDistinct(written)
            /\ \A i \in 1..(Len(written) - 1) :
                    written[i].nonce # written[i + 1].nonce

C3_Witness ==
    /\ lastOp.op = "save"
    /\ lastOp.ok
    /\ Len(written) = 2
    /\ PairwiseDistinct(draws)
    /\ written[1].key = written[2].key
    /\ written[1].salt = written[2].salt
    /\ fs[P].body.pt = fs[backup_path(1)].body.pt

\* C4: a load of a non-empty vault file whose first four bytes are not the
\* magic fails with UnsupportedFormat and returns no records, files shorter
\* than four bytes included.
C4_PlaintextRejected ==
    (/\ lastOp.op \in {"load", "load_vault_file"}
     /\ DataLen(lastOp.read) > 0
     /\ ~starts_with(lastOp.read.raw, <<75, 69, 86, 73>>))
        => (/\ ~lastOp.ok
            /\ lastOp.err = "UnsupportedFormat"
            /\ lastOp.val = <<>>)

C4_Witness ==
    /\ lastOp.op = "load"
    /\ Len(lastOp.read.raw) = 3
    /\ lastOp.err = "UnsupportedFormat"

C4_WitnessPlaintext ==
    /\ lastOp.op = "load"
    /\ lastOp.read = Plaintext(<<E1>>)
    /\ lastOp.err = "UnsupportedFormat"

\* C6: opening a container that save sealed, with a key derived from a
\* passphrase other than the sealing one, fails with DecryptionFailed: never
\* UnsupportedFormat, never DecodeError, never plaintext.
C6_WrongPassphraseFails ==
    (/\ lastOp.op \in {"load", "load_vault_file"}
     /\ UntamperedContainer(lastOp.read)
     /\ lastOp.key # NoKey
     /\ lastOp.key.pw # lastOp.read.body.key.pw)
        => (/\ ~lastOp.ok
            /\ lastOp.err = "DecryptionFailed"
            /\ lastOp.val = <<>>)

C6_Witness ==
    /\ lastOp.op = "load_vault_file"
    /\ UntamperedContainer(lastOp.read)
    /\ lastOp.key # NoKey
    /\ lastOp.key.pw # lastOp.read.body.key.pw
    /\ lastOp.err = "DecryptionFailed"

C6_WitnessService ==
    /\ lastOp.op = "load"
    /\ UntamperedContainer(lastOp.read)
    /\ lastOp.key # NoKey
    /\ lastOp.key.pw # lastOp.read.body.key.pw
    /\ lastOp.err = "DecryptionFailed"

FlippedField(bit) ==
    LET b == bit \div 8
    IN  IF b < 4 THEN "magic"
        ELSE IF b < 6 THEN "version"
        ELSE IF b = 6 THEN "kdf_id"
        ELSE IF b = 7 THEN "aead_id"
        ELSE IF b < 20 THEN "params"
        ELSE IF b < 20 + SALT_LEN THEN "salt"
        ELSE IF b < 20 + SALT_LEN + NONCE_LEN THEN "nonce"
        ELSE "body"

LoadAfterFlip == lastOp.op = "load" /\ touched.kind = "flip"

ReadParamsOk ==
    ParamsOk(KeviHeader(lastOp.read.raw).m_cost_kib,
             KeviHeader(lastOp.read.raw).t_cost,
             KeviHeader(lastOp.read.raw).p_lanes)

\* C5 (as stated): after any single bit of a container written by save is
\* inverted, the next load fails with DecryptionFailed and no other kind.
C5_AnyFlipDecryptionFailed ==
    LoadAfterFlip => (~lastOp.ok /\ lastOp.err = "DecryptionFailed")

\* C5 (amended): after any single bit of a container written by save is
\* inverted, every load fails and returns no records; the error is
\* UnsupportedFormat for a bit of the magic, UnsupportedVersion,
\* UnsupportedKdf or UnsupportedAead for a bit of that field,
\* InvalidKdfParams for a bit of a cost parameter that leaves parameters
\* the key derivation rejects, and DecryptionFailed for every other bit
\* (cost parameters it accepts, salt, nonce, ciphertext, tag).
C5_FlipDetectedByField ==
    LoadAfterFlip =>
        /\ ~lastOp.ok
        /\ lastOp.val = <<>>
        /\ lastOp.err =
              CASE FlippedField(touched.bit) = "magic" -> "UnsupportedFormat"
                [] FlippedField(touched.bit) = "version" -> "UnsupportedVersion"
                [] FlippedField(touched.bit) = "kdf_id" -> "UnsupportedKdf"
                [] FlippedField(touched.bit) = "aead_id" -> "UnsupportedAead"
                [] FlippedField(touched.bit) = "params" ->
                        IF ReadParamsOk THEN "DecryptionFailed"
                        ELSE "InvalidKdfParams"
                [] OTHER -> "DecryptionFailed"

C5_Witness ==
    /\ LoadAfterFlip
    /\ FlippedField(touched.bit) = "body"
    /\ lastOp.read.body.pt # encode(<<>>)
    /\ lastOp.err = "DecryptionFailed"

(***************************************************************************)
(* unlock and lock (vault/handlers.rs).                                    *)
(***************************************************************************)
Ttls == {0, DEFAULT_TTL}

save_derived_key_session(f, fingerprint, key, ttl, t, e) ==
    session_save(f, SESS, DerivedKeyStored(fingerprint, key), ttl, t, e)

UnlockDerivedDefaultTtl(f, fp, k, ttl, t, e) ==
    IF ~k.ok THEN Outcome(f, FALSE, k.err, <<>>, NoKey)
    ELSE Outcome(save_derived_key_session(f, fp, k.key, ttl_secs, t, e),
                 TRUE, "", <<>>, k.key)

UnlockDerived(f, fp, k, ttl, t, e) ==
    IF ~k.ok THEN Outcome(f, FALSE, k.err, <<>>, NoKey)
    ELSE IF atomic_write_fails(f, SESS)
        THEN Outcome(save_derived_key_session(f, fp, k.key, ttl, t, e),
                     FALSE, "SessionWriteFailed", <<>>, NoKey)
    ELSE Outcome(save_derived_key_session(f, fp, k.key, ttl, t, e),
                 TRUE, "", <<>>, k.key)

UnlockParsed(f, h, ttl, pw, t, e) ==
    IF ~h.ok THEN Outcome(f, FALSE, h.err, <<>>, NoKey)
    ELSE [UnlockDerived(f, header_fingerprint_excluding_nonce(h.hdr),
                        DeriveForHeader(pw, h.hdr), ttl, t, e)
            EXCEPT !.asked = TRUE]

handle_unlock(f, ttl, pw, t, e) ==
    IF ~exists(f, P) THEN Outcome(f, FALSE, "NotFound", <<>>, NoKey)
    ELSE UnlockParsed(f, parse_kevi_header(f[P].raw), ttl, pw, t, e)

handle_lock(f) == session_clear(f, SESS)

(***************************************************************************)
(* Session specification: one vault, the two resolvers, unlock and lock,   *)
(* a clock that advances by half the default lifetime, and a session path  *)
(* that something else may fill with junk or occupy with a directory.      *)
(***************************************************************************)
BaseHeader == NewVaultHeader(default_params, SaltBytes(1))

HeaderSamples ==
    { BaseHeader,
      [BaseHeader EXCEPT !.nonce = NonceBytes(1)],
      [BaseHeader EXCEPT !.version = 2],
      [BaseHeader EXCEPT !.kdf_id = 3],
      [BaseHeader EXCEPT !.aead_id = 2],
      [BaseHeader EXCEPT !.m_cost_kib = 2 * 65536],
      [BaseHeader EXCEPT !.t_cost = 4],
      [BaseHeader EXCEPT !.p_lanes = 2],
      [BaseHeader EXCEPT !.salt = SaltBytes(2)] }

Junk == File(<<0>>, NoBody)

SessionFrame ==
    UNCHANGED <<ext, backups, app, writers, perm, clip, wpc, wi, wbytes, nStarted, committed, crashed,
                interrupted, wbase, now, saved, draws, written, ops, touched>>

\* The random source gives 1 as the salt and successive nonces.
SessionSave ==
    /\ ops < MaxOps
    /\ \E entries \in ListsUpTo(1), pw \in Passphrases :
          SaveWith("cached", entries, pw, 1, ops + 1)

BypassSave ==
    /\ ops < MaxOps
    /\ \E pw \in Passphrases : SaveWith("bypass", <<E1>>, pw, 1, ops + 1)

BypassLoad == \E pw \in Passphrases : LoadWith("bypass", pw)

Unlock ==
    \E ttl \in Ttls, pw \in Passphrases :
        \E r \in {handle_unlock(fs, ttl, pw, now, ext)} :
            /\ wpc = "idle"
            /\ fs' = r.fs
            /\ lastOp' = Rec(OpRes("unlock", r.ok, r.err, <<>>, r.key,
                                   StoreRead(fs), 0, 0),
                             r.asked, fs[SESS], pw, ttl)
            /\ SessionFrame

Lock ==
    /\ wpc = "idle"
    /\ fs' = handle_lock(fs)
    /\ lastOp' = Rec(OpRes("lock", TRUE, "", <<>>, NoKey, StoreRead(fs), 0, 0),
                     FALSE, fs[SESS], "", <<>>)
    /\ SessionFrame

ResolveHeader ==
    \E hdr \in HeaderSamples, pw \in Passphrases :
        \E r \in {resolve_for_header(fs, hdr, pw, now, ext)} :
            /\ wpc = "idle"
            /\ fs' = r.fs
            /\ lastOp' = Rec(OpRes("resolve", r.ok, r.err, <<>>, r.key,
                                   StoreRead(fs), 0, 0),
                             r.asked, fs[SESS], pw, hdr)
            /\ SessionFrame

SpoilSession ==
    /\ wpc = "idle"
    /\ fs[SESS] \notin {Junk, Dir}
    /\ \E c \in {Junk, Dir} : fs' = [fs EXCEPT ![SESS] = c]
    /\ lastOp' = Rec(OpRes("spoil", TRUE, "", <<>>, NoKey, StoreRead(fs), 0, 0),
                     FALSE, fs[SESS], "", <<>>)
    /\ SessionFrame

ClearDirectory ==
    /\ wpc = "idle"
    /\ IsDir(fs, SESS)
    /\ fs' = [fs EXCEPT ![SESS] = Absent]
    /\ lastOp' = Rec(OpRes("cleardir", TRUE, "", <<>>, NoKey, StoreRead(fs), 0, 0),
                     FALSE, fs[SESS], "", <<>>)
    /\ SessionFrame

HalfTick ==
    /\ now < MaxTicks * TickSecs
    /\ now' = now + (TickSecs \div 2)
    /\ UNCHANGED <<storeVars, lastOp, saved, draws, written, ops, touched>>

SessionNext ==
    \/ SessionSave
    \/ Load
    \/ BypassSave
    \/ BypassLoad
    \/ Unlock
    \/ Lock
    \/ SpoilSession
    \/ ClearDirectory
    \/ HalfTick

SpecSession == Init /\ [][SessionNext]_vars

(***************************************************************************)
(* Resolver specification: the cached resolver called with headers that    *)
(* differ from one another in one field.                                   *)
(***************************************************************************)
ResolverNext == ResolveHeader \/ Lock \/ HalfTick

SpecResolver == Init /\ [][ResolverNext]_vars

(***************************************************************************)
(* Session properties.                                                     *)
(***************************************************************************)
IsSession(file) == file.body.k = "sess"

Unexpired(file, t) == IsSession(file) /\ t < file.body.expires_at_unix

CachedLoad(op) == op.op = "load" /\ op.arg = "cached"

CreatedVault(op) ==
    op.op = "save" /\ op.arg = "cached" /\ op.ok /\ IsEmpty(op.read)

\* The load went as far as the key resolver.
ReachedResolver(op) ==
    /\ ~IsEmpty(op.read)
    /\ starts_with(op.read.raw, HEADER_MAGIC)
    /\ parse_kevi_header(op.read.raw).ok

\* A load through the cached resolver that directly follows (the clock may
\* have advanced) the save that created the vault, before the session
\* expires.
LoadAfterCreate ==
    /\ CreatedVault(lastOp)
    /\ Unexpired(fs[SESS], now)
    /\ CachedLoad(lastOp')

\* C11: the load that follows the save that created the vault, before the
\* session expires, returns the saved records and does not invoke the
\* passphrase source; a load that finds no session file invokes it.
C11_SessionHitAfterCreate ==
    /\ [][LoadAfterCreate =>
            (lastOp'.ok /\ ~lastOp'.asked /\ lastOp'.val = lastOp.val)]_vars
    /\ [](CachedLoad(lastOp) /\ ReachedResolver(lastOp) /\ lastOp.sess = Absent
            => lastOp.asked)

C11_Witness ==
    /\ CachedLoad(lastOp)
    /\ lastOp.ok
    /\ ~lastOp.asked
    /\ lastOp.pw = "bad"
    /\ lastOp.val = <<E1>>
    /\ now = TickSecs \div 2
    /\ ops = 1
    /\ lastOp.sess.body.expires_at_unix = DEFAULT_TTL

C11_WitnessDeleted ==
    /\ CachedLoad(lastOp)
    /\ ReachedResolver(lastOp)
    /\ lastOp.sess = Absent
    /\ lastOp.asked
    /\ lastOp.ok

HeaderOf(file) == parse_kevi_header(file.raw).hdr

SameButNonce(h1, h2) == [h1 EXCEPT !.nonce = h2.nonce] = h2

\* The session file holds an unexpired session bound to the header of the
\* vault file.
SessionMatches(f, t) ==
    /\ Unexpired(f[SESS], t)
    /\ ~IsEmpty(StoreRead(f))
    /\ parse_kevi_header(f[P].raw).ok
    /\ f[SESS].body.data.header_fingerprint_hex
         = header_fingerprint_excluding_nonce(HeaderOf(f[P]))

SaveOverMatch ==
    /\ SessionMatches(fs, now)
    /\ ops' = ops + 1
    /\ lastOp'.op = "save" /\ lastOp'.arg = "cached" /\ lastOp'.ok

\* C12: two headers have the same fingerprint exactly when they agree in
\* every field but the nonce; so a successful save over a vault whose
\* header an unexpired session matches leaves that session matching the
\* header it wrote.
C12_FingerprintIgnoresNonce ==
    /\ [](\A h1, h2 \in HeaderSamples :
            (header_fingerprint_excluding_nonce(h1)
               = header_fingerprint_excluding_nonce(h2)) <=> SameButNonce(h1, h2))
    /\ [][SaveOverMatch => (fs'[SESS] = fs[SESS] /\ SessionMatches(fs', now'))]_vars

C12_Witness ==
    /\ lastOp.op = "save" /\ lastOp.arg = "cached" /\ lastOp.ok
    /\ ~IsEmpty(lastOp.read)
    /\ Unexpired(lastOp.sess, now)
    /\ lastOp.sess.body.data.header_fingerprint_hex
         = header_fingerprint_excluding_nonce(HeaderOf(lastOp.read))
    /\ HeaderOf(lastOp.read).nonce # HeaderOf(fs[P]).nonce
    /\ SessionMatches(fs, now)

\* A call of resolve_for_header (the clock stands still during the call).
ResolveStep == lastOp'.op = "resolve" /\ now' = now

\* The session file holds an unexpired session bound to a header that
\* differs from hdr in a field other than the nonce.
BoundElsewhere(file, t, hdr) ==
    /\ Unexpired(file, t)
    /\ \E h1 \in HeaderSamples :
          /\ file.body.data.header_fingerprint_hex
               = header_fingerprint_excluding_nonce(h1)
          /\ ~SameButNonce(h1, hdr)

KeyUnder(pw, hdr) == DeriveForHeader(pw, hdr).key

\* C13: resolve_for_header(H2), finding an unexpired session bound to a
\* header that differs from H2 in a field other than the nonce, obtains the
\* passphrase, returns the key derived from it under H2 and replaces the
\* session with one bound to the fingerprint of H2.
C13_MismatchDerivesAndRebinds ==
    [][ResolveStep /\ BoundElsewhere(fs[SESS], now, lastOp'.arg) =>
         /\ lastOp'.ok
         /\ lastOp'.asked
         /\ lastOp'.key = KeyUnder(lastOp'.pw, lastOp'.arg)
         /\ fs'[SESS] = SessionEnvelope(now + ttl_secs,
                DerivedKeyStored(header_fingerprint_excluding_nonce(lastOp'.arg),
                                 KeyUnder(lastOp'.pw, lastOp'.arg)))]_vars

C13_Witness ==
    /\ lastOp.op = "resolve"
    /\ BoundElsewhere(lastOp.sess, now, lastOp.arg)
    /\ lastOp.arg = [BaseHeader EXCEPT !.t_cost = 4]
    /\ lastOp.pw = "bad"
    /\ lastOp.sess.body.data.key_b64.bytes.pw = "pw"
    /\ lastOp.key = KeyUnder("bad", lastOp.arg)
    /\ fs[SESS].body.data.header_fingerprint_hex
         = header_fingerprint_excluding_nonce(lastOp.arg)
    /\ now = TickSecs \div 2

Expired(file, t) == IsSession(file) /\ t >= file.body.expires_at_unix

\* A step that writes a session file, and the lifetime it is written with:
\* unlock takes the lifetime it is given, the cached resolver its own.
SessionWritten == IsSession(fs'[SESS]) /\ fs'[SESS] # fs[SESS]

WrittenTtl == IF lastOp'.op = "unlock" THEN lastOp'.arg ELSE ttl_secs

\* A load through the cached resolver that reads the session file.
CachedLoadStep == CachedLoad(lastOp') /\ ReachedResolver(lastOp') /\ now' = now

\* C14: reading a session at or after its expiry returns none and removes
\* the file; a session written at time t with lifetime ttl expires at
\* t + ttl; so a session with lifetime 0 is never returned.
C14_ExpiredNeverReturned ==
    /\ [](Expired(fs[SESS], now) =>
            /\ ~session_load(fs, SESS, now).some
            /\ session_load(fs, SESS, now).fs[SESS] = Absent)
    /\ [][SessionWritten => fs'[SESS].body.expires_at_unix = now + WrittenTtl]_vars
    /\ [][CachedLoadStep /\ Expired(fs[SESS], now) =>
            lastOp'.asked /\ fs'[SESS] # fs[SESS]]_vars

\* A session written by unlock with lifetime 0 is read in the same second.
C14_Witness ==
    /\ CachedLoad(lastOp)
    /\ lastOp.ok
    /\ lastOp.asked
    /\ IsSession(lastOp.sess)
    /\ lastOp.sess.body.expires_at_unix = now
    /\ now = TickSecs \div 2
    /\ fs[SESS].body.expires_at_unix = now + ttl_secs

\* A load or a save through a service built on the bypass resolver.
BypassStep ==
    /\ lastOp'.op \in {"load", "save"}
    /\ lastOp'.arg = "bypass"
    /\ now' = now

\* C15: an operation through the bypass resolver leaves the session file as
\* it was, whatever it holds (nothing, a session, an expired session, junk,
\* a directory), and the key it uses comes from the passphrase source.
C15_BypassLeavesSession ==
    [][BypassStep =>
         /\ fs'[SESS] = fs[SESS]
         /\ (lastOp'.op = "save" \/ ReachedResolver(lastOp') => lastOp'.asked)
         /\ (lastOp'.ok /\ lastOp'.asked => lastOp'.key.pw = lastOp'.pw)]_vars

C15_Witness ==
    /\ lastOp.op = "load" /\ lastOp.arg = "bypass" /\ lastOp.ok
    /\ Expired(lastOp.sess, now)
    /\ fs[SESS] = lastOp.sess

C15_WitnessCorrupt ==
    /\ lastOp.op = "load" /\ lastOp.arg = "bypass" /\ lastOp.ok
    /\ lastOp.sess = Junk
    /\ fs[SESS] = Junk

C15_WitnessAbsent ==
    /\ lastOp.op = "save" /\ lastOp.arg = "bypass" /\ lastOp.ok
    /\ IsEmpty(lastOp.read)
    /\ lastOp.sess = Absent
    /\ fs[SESS] = Absent

C15_WitnessOtherKey ==
    /\ lastOp.op = "load" /\ lastOp.arg = "bypass" /\ ~lastOp.ok
    /\ lastOp.pw = "bad"
    /\ Unexpired(lastOp.sess, now)
    /\ lastOp.sess.body.data.key_b64.bytes.pw = "pw"
    /\ fs[SESS] = lastOp.sess

(***************************************************************************)
(* Entries specification: add_entry and remove_entry through the cached    *)
(* resolver, on record lists with two labels, with lock in between so that *)
(* the load inside them can fail on a wrong passphrase.                    *)
(***************************************************************************)
E3 == VaultEntry(<<"b">>, None, <<"q">>, None)

SampleLists == { <<>>, <<E1>>, <<E3, E1>>, <<E1, E3, E2>> }

SampleLabels == { <<"a">>, <<"b">>, <<"c">> }

\* What a completed vault write leaves on record.
Observed(wrote, entries, key, n, f) ==
    /\ saved' = IF wrote THEN [valid |-> TRUE, R |-> entries, key |-> key]
                ELSE saved
    /\ draws' = IF wrote THEN Append(draws, n) ELSE draws
    /\ written' = IF wrote
                  THEN Append(written, [key |-> key,
                                        salt |-> WrittenHeader(f).salt,
                                        nonce |-> WrittenHeader(f).nonce])
                  ELSE written
    /\ touched' = IF wrote THEN NoTamper ELSE touched
    /\ ops' = IF wrote THEN ops + 1 ELSE ops
    /\ UNCHANGED <<ext, backups, app, writers, perm, clip, wpc, wi, wbytes, nStarted, committed,
                   crashed, interrupted, wbase, now>>

SeedSave ==
    /\ ops < MaxOps
    /\ \E entries \in SampleLists, pw \in Passphrases :
          SaveWith("cached", entries, pw, 1, ops + 1)

AddEntry ==
    /\ ops < MaxOps
    /\ wpc = "idle"
    /\ \E entry \in {E1, E3}, pw \in Passphrases, pw2 \in Passphrases :
          \E r \in {add_entry("cached", fs, entry, pw, pw2, SaltBytes(1),
                               NonceBytes(ops + 1), now, ext, backups)} :
              /\ fs' = r.fs
              /\ lastOp' = Rec(OpRes("add", r.ok, r.err, r.val, r.key,
                                     StoreRead(fs), 1, ops + 1),
                               r.asked, fs[SESS], pw, entry)
              /\ Observed(r.ok, Append(r.val, entry), r.key, ops + 1, r.fs)

RemoveEntry ==
    /\ ops < MaxOps
    /\ wpc = "idle"
    /\ \E label \in SampleLabels, pw \in Passphrases, pw2 \in Passphrases :
          \E r \in {remove_entry("cached", fs, label, pw, pw2, SaltBytes(1),
                                  NonceBytes(ops + 1), now, ext, backups)} :
              /\ fs' = r.fs
              /\ lastOp' = [Rec(OpRes("remove", r.ok, r.err, r.val, r.key,
                                      StoreRead(fs), 1, ops + 1),
                                r.asked, fs[SESS], pw, label)
                              EXCEPT !.removed = r.removed]
              /\ Observed(r.removed, retain(r.val, label), r.key, ops + 1, r.fs)

EntriesNext == SeedSave \/ AddEntry \/ RemoveEntry \/ Load \/ Lock

SpecEntries == Init /\ [][EntriesNext]_vars

(***************************************************************************)
(* Entry properties.                                                       *)
(***************************************************************************)
\* The record list the vault file holds (none when there is no file).
Stored(f) == IF exists(f, P) THEN decode(f[P].body.pt).val ELSE <<>>

Without(list, label) == SelectSeq(list, LAMBDA x : x.label # label)

HasLabel(list, label) == \E i \in 1..Len(list) : list[i].label = label

\* The vault file, its backups and the temporary file are as they were.
VaultUntouched == \A n \in DOMAIN fs \ {SESS} : fs'[n] = fs[n]

RemoveStep == lastOp'.op = "remove" /\ lastOp'.ok

LoadAfterRemove ==
    lastOp.op = "remove" /\ lastOp.ok /\ lastOp.removed /\ CachedLoad(lastOp')

C16_WitnessKept ==
    /\ lastOp.op = "remove" /\ lastOp.ok /\ ~lastOp.removed
    /\ lastOp.arg = <<"c">>
    /\ lastOp.val = <<E3, E1>>
    /\ Stored(fs) = <<E3, E1>>
    /\ ~exists(fs, backup_path(1))

AddStep == lastOp'.op = "add"

LoadAfterAdd == lastOp.op = "add" /\ lastOp.ok /\ CachedLoad(lastOp')

C17_WitnessLoadFails ==
    /\ lastOp.op = "add" /\ ~lastOp.ok
    /\ lastOp.err = "DecryptionFailed"
    /\ lastOp.pw = "bad"
    /\ lastOp.asked
    /\ Stored(fs) = <<E3, E1>>

(***************************************************************************)
(* Unlock specification: unlock on a vault that is absent, written by a    *)
(* save, or replaced by a file no save wrote; the session path may hold    *)
(* any earlier session, junk or a directory.                               *)
(***************************************************************************)
UnlockNext ==
    \/ SessionSave
    \/ Plant
    \/ Unlock
    \/ SpoilSession
    \/ ClearDirectory
    \/ HalfTick

SpecUnlock == Init /\ [][UnlockNext]_vars

ValidVault(f) == exists(f, P) /\ parse_kevi_header(f[P].raw).ok

UnlockStep == lastOp'.op = "unlock" /\ now' = now

\* C18: unlock(ttl) on a vault file whose header parses writes, in place of
\* whatever the session path held, a session bound to the fingerprint of
\* that header, holding the key derived from the passphrase under it and
\* expiring at now + ttl; without such a vault file it fails and the
\* session path is as it was.
C18_UnlockWritesSession ==
    /\ [][UnlockStep /\ ValidVault(fs) /\ ~IsDir(fs, SESS) =>
            /\ lastOp'.ok
            /\ lastOp'.asked
            /\ lastOp'.key = KeyUnder(lastOp'.pw, HeaderOf(fs[P]))
            /\ fs'[SESS] = SessionEnvelope(now + lastOp'.arg,
                   DerivedKeyStored(
                       header_fingerprint_excluding_nonce(HeaderOf(fs[P])),
                       KeyUnder(lastOp'.pw, HeaderOf(fs[P]))))
            /\ \A n \in Names \ {SESS, TMP} : fs'[n] = fs[n]]_vars
    /\ [][UnlockStep /\ ~ValidVault(fs) =>
            ~lastOp'.ok /\ fs' = fs]_vars

C18_Witness ==
    /\ lastOp.op = "unlock" /\ lastOp.ok
    /\ lastOp.arg = 0
    /\ lastOp.pw = "bad"
    /\ Unexpired(lastOp.sess, now)
    /\ lastOp.sess.body.data.key_b64.bytes.pw = "pw"
    /\ fs[SESS].body.expires_at_unix = now
    /\ fs[SESS].body.data.key_b64.bytes.pw = "bad"
    /\ now = TickSecs \div 2

C18_WitnessAbsent ==
    /\ lastOp.op = "unlock" /\ ~lastOp.ok
    /\ lastOp.err = "NotFound"
    /\ fs[SESS] = Junk

C18_WitnessUnparsable ==
    /\ lastOp.op = "unlock" /\ ~lastOp.ok
    /\ lastOp.err = "UnsupportedVersion"
    /\ Unexpired(fs[SESS], now)

(***************************************************************************)
(* Lock properties.                                                        *)
(***************************************************************************)
LockStep == lastOp'.op = "lock"

\* A load or save through the cached resolver that gets as far as the
\* resolver, directly after lock.
CachedAfterLock ==
    /\ lastOp.op = "lock"
    /\ fs[SESS] = Absent
    /\ \/ lastOp'.op = "save" /\ lastOp'.arg = "cached"
       \/ CachedLoad(lastOp') /\ ReachedResolver(lastOp')

\* C19: lock succeeds and leaves no file at the session path, whether it
\* held a session, an expired session, junk or nothing; it changes nothing
\* else; the load or save through the cached resolver that follows invokes
\* the passphrase source.
C19_LockClearsSession ==
    /\ [][LockStep =>
            /\ lastOp'.ok
            /\ fs'[SESS].kind # "file"
            /\ ~IsDir(fs, SESS) => fs'[SESS] = Absent
            /\ \A n \in Names \ {SESS} : fs'[n] = fs[n]]_vars
    /\ [][CachedAfterLock => lastOp'.asked]_vars

C19_Witness ==
    /\ CachedLoad(lastOp)
    /\ lastOp.asked
    /\ lastOp.pw = "bad"
    /\ ~lastOp.ok
    /\ lastOp.sess = Absent
    /\ written # <<>>
    /\ written[1].key.pw = "pw"
    /\ Unexpired(fs[SESS], now)

C19_WitnessValid ==
    /\ lastOp.op = "lock"
    /\ Unexpired(lastOp.sess, now)
    /\ fs[SESS] = Absent
    /\ exists(fs, P)

C19_WitnessExpired ==
    /\ lastOp.op = "lock" /\ Expired(lastOp.sess, now) /\ fs[SESS] = Absent

C19_WitnessCorrupt ==
    /\ lastOp.op = "lock" /\ lastOp.sess = Junk /\ fs[SESS] = Absent

C19_WitnessAbsent ==
    /\ lastOp.op = "lock" /\ lastOp.sess = Absent /\ fs[SESS] = Absent
    /\ exists(fs, P)

(***************************************************************************)
(* Cache failures.                                                         *)
(***************************************************************************)
CacheErrors == {"SessionReadFailed", "SessionWriteFailed"}

\* C20: a load or save through the cached resolver never returns an error
\* that comes from reading or writing the session file.  The resolver
\* passes both errors on (the ? after load and after save), so this fails
\* once the session path cannot be read or replaced.
C20_CacheFailureNeverSurfaces ==
    lastOp.op \in {"load", "save"} /\ lastOp.arg = "cached"
        => lastOp.err \notin CacheErrors

(***************************************************************************)
(* Key buffer.                                                             *)
(***************************************************************************)
\* C21: when load or save returns, the key buffer it filled is unlocked and
\* holds zeros.  load returns from a failed decryption before it reaches
\* unlock_slice and zeroize, so this fails on a load with a wrong key.
C21_KeyBufferWiped ==
    lastOp.op \in {"load", "save"} => lastOp.key_arr = Wiped

(***************************************************************************)
(* Corrupted session file.                                                 *)
(***************************************************************************)
\* A load or save through the cached resolver that calls resolve_for_header
\* while the session file holds junk.
ResolveOverJunk ==
    /\ fs[SESS] = Junk
    /\ ValidVault(fs)
    /\ now' = now
    /\ \/ CachedLoad(lastOp') /\ ReachedResolver(lastOp')
       \/ lastOp'.op = "save" /\ lastOp'.arg = "cached" /\ ops' = ops + 1

\* C22: reading a session file that does not parse returns none, without
\* an error, and removes the file; resolve_for_header then derives the key
\* from the passphrase and writes a session bound to the header.
C22_CorruptSessionHeals ==
    /\ [](fs[SESS] = Junk =>
            session_load(fs, SESS, now)
              = Loaded([fs EXCEPT ![SESS] = Absent], TRUE, FALSE, NoStored))
    /\ [][ResolveOverJunk =>
            /\ lastOp'.asked
            /\ lastOp'.err \notin CacheErrors
            /\ lastOp'.key = KeyUnder(lastOp'.pw, HeaderOf(fs[P]))
            /\ fs'[SESS] = SessionEnvelope(now + ttl_secs,
                   DerivedKeyStored(
                       header_fingerprint_excluding_nonce(HeaderOf(fs[P])),
                       KeyUnder(lastOp'.pw, HeaderOf(fs[P]))))]_vars

C22_Witness ==
    /\ CachedLoad(lastOp)
    /\ lastOp.sess = Junk
    /\ lastOp.ok
    /\ lastOp.asked
    /\ lastOp.val = <<E1>>
    /\ Unexpired(fs[SESS], now)
    /\ now = TickSecs \div 2

(***************************************************************************)
(* Header specification: the bytes build_header emits, changed in up to    *)
(* MaxEdits places (a byte set, the sequence cut or padded), handed to     *)
(* parse_kevi_header.  The bytes are kept as the raw part of the file at   *)
(* the vault path.                                                         *)
(***************************************************************************)
MaxEdits == 2

EmitSamples ==
    { [s |-> 1, n |-> 1, m |-> 65536, t |-> 3, p |-> 1],
      [s |-> 2, n |-> 1, m |-> 0, t |-> 0, p |-> 0],
      [s |-> 1, n |-> 2, m |-> 16777215, t |-> 258, p |-> 65537] }

EditOffsets == {0, 3, 4, 5, 6, 7, 8, 47}

EditBytes == {0, 2, 255}

EditLengths == {0, 3, 47, 49}

HeaderFrame ==
    UNCHANGED <<ext, backups, app, writers, perm, clip, wpc, wi, wbytes, nStarted, committed, crashed,
                interrupted, wbase, now, saved, draws, written, touched>>

EmitHeader ==
    /\ ~exists(fs, P)
    /\ \E x \in EmitSamples :
          /\ fs' = [fs EXCEPT ![P] =
                       File(build_header(SaltBytes(x.s), NonceBytes(x.n),
                                         x.m, x.t, x.p), NoBody)]
          /\ lastOp' = Rec(OpRes("emit", TRUE, "", <<>>, NoKey, Absent, x.s, x.n),
                           FALSE, Absent, "", x)
    /\ UNCHANGED ops
    /\ HeaderFrame

SetByte ==
    /\ exists(fs, P)
    /\ ops < MaxEdits
    /\ \E o \in EditOffsets, b \in EditBytes :
          /\ o < Len(fs[P].raw)
          /\ fs[P].raw[o + 1] # b
          /\ fs' = [fs EXCEPT ![P].raw[o + 1] = b]
    /\ lastOp' = Rec(OpRes("edit", TRUE, "", <<>>, NoKey, fs[P], 0, 0),
                     FALSE, Absent, "", <<>>)
    /\ ops' = ops + 1
    /\ HeaderFrame

Resize ==
    /\ exists(fs, P)
    /\ ops < MaxEdits
    /\ \E n \in EditLengths :
          /\ n # Len(fs[P].raw)
          /\ fs' = [fs EXCEPT ![P].raw =
                       [i \in 1..n |-> IF i <= Len(fs[P].raw) THEN fs[P].raw[i] ELSE 0]]
    /\ lastOp' = Rec(OpRes("edit", TRUE, "", <<>>, NoKey, fs[P], 0, 0),
                     FALSE, Absent, "", <<>>)
    /\ ops' = ops + 1
    /\ HeaderFrame

ParseHeader ==
    /\ exists(fs, P)
    /\ \E r \in {parse_kevi_header(fs[P].raw)} :
          lastOp' = Rec(OpRes("parse", r.ok, r.err, <<>>, NoKey, fs[P], 0, 0),
                        FALSE, Absent, "", r)
    /\ UNCHANGED <<fs, ops>>
    /\ HeaderFrame

HeaderNext == EmitHeader \/ SetByte \/ Resize \/ ParseHeader

SpecHeader == Init /\ [][HeaderNext]_vars

\* The layout table: offsets from the start of the file.
U16At(d, o) == d[o + 1] + 256 * d[o + 2]

U32At(d, o) == d[o + 1] + 256 * d[o + 2] + 65536 * d[o + 3] + 16777216 * d[o + 4]

BytesAt(d, o, n) == [i \in 1..n |-> d[o + i]]

ParseError(kind, arg) ==
    [ok |-> FALSE, err |-> kind, arg |-> arg, hdr |-> NoHeader, off |-> 0]

ExpectedParse(d) ==
    IF Len(d) < 48 THEN ParseError("TooShort", 0)
    ELSE IF BytesAt(d, 0, 4) # <<75, 69, 86, 73>> THEN ParseError("InvalidMagic", 0)
    ELSE IF U16At(d, 4) # 1 THEN ParseError("UnsupportedVersion", U16At(d, 4))
    ELSE IF d[7] # 2 THEN ParseError("UnsupportedKdf", d[7])
    ELSE IF d[8] # 1 THEN ParseError("UnsupportedAead", d[8])
    ELSE [ok |-> TRUE, err |-> "", arg |-> 0, off |-> 48,
          hdr |-> [version |-> 1, kdf_id |-> 2, aead_id |-> 1,
                   m_cost_kib |-> U32At(d, 8), t_cost |-> U32At(d, 12),
                   p_lanes |-> U32At(d, 16), salt |-> BytesAt(d, 20, 16),
                   nonce |-> BytesAt(d, 36, 12)]]

ParseAfterEmit == lastOp.op = "emit" /\ lastOp'.op = "parse"

\* C23: parse_kevi_header returns, for every byte sequence, what the first
\* failing check of the list decides (too short, magic, version, kdf id,
\* aead id) or else the fields at the offsets of the layout with ciphertext
\* offset 48; build_header emits 48 bytes and parsing them returns the
\* values they were built from.
C23_ParseByFirstFailingCheck ==
    /\ [](lastOp.op = "parse" => lastOp.arg = ExpectedParse(lastOp.read.raw))
    /\ [][ParseAfterEmit =>
            /\ Len(fs[P].raw) = 48
            /\ lastOp'.arg.ok
            /\ lastOp'.arg.off = 48
            /\ lastOp'.arg.hdr =
                  [version |-> 1, kdf_id |-> 2, aead_id |-> 1,
                   m_cost_kib |-> lastOp.arg.m, t_cost |-> lastOp.arg.t,
                   p_lanes |-> lastOp.arg.p,
                   salt |-> SaltBytes(lastOp.arg.s),
                   nonce |-> NonceBytes(lastOp.arg.n)]]_vars

\* Version and kdf id both wrong: the version is reported.
C23_Witness ==
    /\ lastOp.op = "parse"
    /\ lastOp.arg = ParseError("UnsupportedVersion", 2)
    /\ lastOp.read.raw[7] = 0

C23_WitnessRoundTrip ==
    /\ lastOp.op = "parse"
    /\ lastOp.arg.ok
    /\ lastOp.arg.hdr.t_cost = 258
    /\ ops = 0

C23_WitnessTooShort ==
    /\ lastOp.op = "parse"
    /\ lastOp.arg.err = "TooShort"
    /\ Len(lastOp.read.raw) = 47

(***************************************************************************)
(* init (vault/handlers.rs handle_init, core/store.rs save_vault_file):    *)
(* the master passphrase is typed twice; an empty record list is encrypted *)
(* with the passphrase-only helper and written over the vault path.        *)
(***************************************************************************)
save_vault_file(f, entries, password, salt, nonce_bytes, e, n) ==
    write_with_backups_n(f, encrypt_vault(encode(entries), password, salt,
                                          nonce_bytes), n, e)

handle_init(f, pw1, pw2, salt, nonce_bytes, e, n) ==
    IF pw1 # pw2 THEN Outcome(f, FALSE, "PasswordsDoNotMatch", <<>>, NoKey)
    ELSE Outcome(save_vault_file(f, <<>>, pw1, salt, nonce_bytes, e, n),
                 TRUE, "", <<>>,
                 derive_key_argon2id(pw1, salt, default_params.m_cost_kib,
                                     default_params.t_cost,
                                     default_params.p_lanes).key)

HandleInit ==
    /\ ops < MaxOps
    /\ wpc = "idle"
    /\ \E pw1 \in Passphrases, pw2 \in Passphrases, sl \in 1..MaxSalt :
          \E r \in {handle_init(fs, pw1, pw2, SaltBytes(sl), NonceBytes(ops + 1),
                                 ext, backups)} :
              /\ fs' = r.fs
              /\ lastOp' = Rec(OpRes("init", r.ok, r.err, <<>>, r.key,
                                     StoreRead(fs), sl, ops + 1),
                               TRUE, fs[SESS], pw1, pw2)
              /\ Observed(r.ok, <<>>, r.key, ops + 1, r.fs)

InitNext == SeedSave \/ AddEntry \/ RemoveEntry \/ HandleInit

SpecInit == Init /\ [][InitNext]_vars

\* C24: while the vault file exists, every write leaves in its header the
\* salt and the parameters of the write that created it.  init encrypts
\* with a salt of its own, so this fails when init runs on an existing
\* vault.
C24_SaltAndParamsKept ==
    \A i \in 1..Len(written) :
        /\ written[i].salt = written[1].salt
        /\ exists(fs, P)
        /\ HeaderOf(fs[P]).salt = written[1].salt
        /\ HeaderOf(fs[P]).m_cost_kib = default_params.m_cost_kib
        /\ HeaderOf(fs[P]).t_cost = default_params.t_cost
        /\ HeaderOf(fs[P]).p_lanes = default_params.p_lanes

(***************************************************************************)
(* Two byte-store writes to one path, running side by side.  Each writer   *)
(* runs write_with_backups_n once; a step is one file-system call.  An     *)
(* open file follows its file, not its name: h is the name under which the *)
(* file behind a writer's open handle lives now, off the handle's offset,  *)
(* dst the path the writer's atomic_write_secure was called with.          *)
(***************************************************************************)
Writers == {1, 2}

Closed == SESS - 1
Unlinked == SESS - 2

Given(w) == Bytes(w)

Earlier == Bytes(3)

FirstStep(n) == IF RotationEnabled(n) THEN "remove_oldest" ELSE "create_tmp"

Renames(f, src, dst) == exists(f, src) /\ src # dst /\ ~IsDir(f, dst)

\* Open handles after rename(src, dst): the file moved keeps its handles,
\* the file replaced has no name any more.
HandlesAfterRename(ws, f, src, dst) ==
    [w \in DOMAIN ws |->
        IF ~Renames(f, src, dst) THEN ws[w]
        ELSE IF ws[w].h = src THEN [ws[w] EXCEPT !.h = dst]
        ELSE IF ws[w].h = dst THEN [ws[w] EXCEPT !.h = Unlinked]
        ELSE ws[w]]

HandlesAfterRemove(ws, f, n) ==
    [w \in DOMAIN ws |->
        IF ws[w].h = n /\ exists(f, n) /\ ~IsDir(f, n)
        THEN [ws[w] EXCEPT !.h = Unlinked] ELSE ws[w]]

\* write(2) at an offset: bytes past the end of the file leave a hole of
\* zero bytes before them.
WriteAt(raw, off, chunk) ==
    [j \in 1..(IF Len(raw) > off + Len(chunk) THEN Len(raw)
               ELSE off + Len(chunk)) |->
        IF j > off /\ j <= off + Len(chunk) THEN chunk[j - off]
        ELSE IF j <= Len(raw) THEN raw[j] ELSE 0]

RaceInit ==
    /\ IdleService
    /\ fs \in {[n \in Names |-> Absent],
               [n \in Names |-> IF n = P THEN Earlier ELSE Absent]}
    /\ ext \in Exts
    /\ backups \in 0..MaxN
    /\ wpc = "idle"
    /\ wi = 0
    /\ wbytes = Absent
    /\ nStarted = 0
    /\ committed = <<>>
    /\ crashed = FALSE
    /\ interrupted = FALSE
    /\ wbase = FALSE
    /\ perm = NoPerm
    /\ clip = NoClip
    /\ app = NoApp
    /\ writers = [w \in Writers |->
                     [pc |-> FirstStep(backups), i |-> 0, h |-> Closed,
                      off |-> 0, ok |-> FALSE, dst |-> P]]

RaceFrame ==
    UNCHANGED <<ext, backups, app, perm, clip, wpc, wi, wbytes, nStarted, committed,
                crashed, interrupted, wbase, svcVars>>

RaceRemoveOldest(w) ==
    /\ writers[w].pc = "remove_oldest"
    /\ fs' = RemoveOldest(fs, backups)
    /\ writers' = [HandlesAfterRemove(writers, fs, backup_path(backups))
                     EXCEPT ![w].i = ShiftStart(backups),
                            ![w].pc = IF ShiftStart(backups) >= 1
                                      THEN "shift" ELSE "move_current"]
    /\ RaceFrame

RaceShift(w) ==
    /\ writers[w].pc = "shift"
    /\ fs' = ShiftOne(fs, writers[w].i)
    /\ writers' = [HandlesAfterRename(writers, fs, backup_path(writers[w].i),
                                      backup_path(writers[w].i + 1))
                     EXCEPT ![w].i = writers[w].i - 1,
                            ![w].pc = IF writers[w].i - 1 >= 1
                                      THEN "shift" ELSE "move_current"]
    /\ RaceFrame

RaceMoveCurrent(w) ==
    /\ writers[w].pc = "move_current"
    /\ fs' = MoveCurrent(fs)
    /\ writers' = [HandlesAfterRename(writers, fs, P, backup_path(1))
                     EXCEPT ![w].pc = "create_tmp"]
    /\ RaceFrame

\* File::create opens the temporary file, truncating the file that is
\* there: a handle another writer holds on it stays on the same file.
RaceCreateTmp(w) ==
    /\ writers[w].pc = "create_tmp"
    /\ fs' = file_create(fs, tmp_path(writers[w].dst, ext))
    /\ writers' = [writers EXCEPT ![w].h = tmp_path(writers[w].dst, ext), ![w].off = 0,
                                  ![w].pc = "write_tmp"]
    /\ RaceFrame

\* write_all: one write(2) takes some of the bytes left; after the last one
\* the handle is synced and dropped.
RaceWriteTmp(w) ==
    /\ writers[w].pc = "write_tmp"
    /\ \E k \in 1..(Len(Given(w).raw) - writers[w].off) :
          /\ fs' = IF writers[w].h = Unlinked THEN fs
                   ELSE [fs EXCEPT ![writers[w].h] =
                            File(WriteAt(fs[writers[w].h].raw, writers[w].off,
                                         SubSeq(Given(w).raw, writers[w].off + 1,
                                                writers[w].off + k)),
                                 NoBody)]
          /\ writers' = IF writers[w].off + k = Len(Given(w).raw)
                        THEN [writers EXCEPT ![w].off = writers[w].off + k,
                                             ![w].h = Closed,
                                             ![w].pc = "reopen_tmp"]
                        ELSE [writers EXCEPT ![w].off = writers[w].off + k]
    /\ RaceFrame

\* OpenOptions::new().create(true).write(true).open(tmp): an absent
\* temporary file is created empty; the handle is dropped at once.
RaceReopenTmp(w) ==
    /\ writers[w].pc = "reopen_tmp"
    /\ fs' = IF exists(fs, tmp_path(writers[w].dst, ext)) THEN fs
             ELSE file_create(fs, tmp_path(writers[w].dst, ext))
    /\ writers' = [writers EXCEPT ![w].pc = "rename_tmp"]
    /\ RaceFrame

\* fs::rename(tmp, path): an error when the temporary file is gone.
RaceRenameTmp(w) ==
    /\ writers[w].pc = "rename_tmp"
    /\ fs' = rename(fs, tmp_path(writers[w].dst, ext), writers[w].dst)
    /\ writers' = [HandlesAfterRename(writers, fs,
                                      tmp_path(writers[w].dst, ext),
                                      writers[w].dst)
                     EXCEPT ![w].ok = exists(fs, tmp_path(writers[w].dst, ext)),
                            ![w].pc = "done"]
    /\ RaceFrame

RaceNext ==
    \E w \in Writers :
        \/ RaceRemoveOldest(w)
        \/ RaceShift(w)
        \/ RaceMoveCurrent(w)
        \/ RaceCreateTmp(w)
        \/ RaceWriteTmp(w)
        \/ RaceReopenTmp(w)
        \/ RaceRenameTmp(w)

SpecRace == RaceInit /\ [][RaceNext]_vars

BothFinished == writers # <<>> /\ \A w \in DOMAIN writers : writers[w].pc = "done"

\* C25: once two byte-store writes to one path that ran side by side have
\* both finished, the file at path exists and holds, in full, the contents
\* given to one of the two writes.
C25_OneWriteWins ==
    BothFinished => exists(fs, P) /\ \E w \in Writers : fs[P] = Given(w)

\* What does hold of the race: the file at path is there at the end.
RacePathPresent == BothFinished => exists(fs, P)

(***************************************************************************)
(* A passphrase source that fails: KEVI_PASSWORD is unset and the prompt   *)
(* returns an error.  The calls below are those that reach the source.     *)
(***************************************************************************)
PromptFailed == "prompt failed"

\* The directory as it is when the source is asked: the cached resolver
\* has read the session file first (resolve_for_header only).
AskedAt(kr, f, new, t) ==
    IF kr = "bypass" \/ new THEN f ELSE session_load(f, SESS, t).fs

\* resolve_password unwraps the prompt's result; resolve_for_new_vault of
\* the bypass resolver prompts by itself and propagates the error.
resolve_password_fails(kr, new) ==
    IF kr = "bypass" /\ new THEN "PromptFailed" ELSE "panic"

Unanswered(kr, f, new, t) ==
    [Outcome(AskedAt(kr, f, new, t), FALSE, resolve_password_fails(kr, new),
             <<>>, NoKey) EXCEPT !.asked = TRUE]

\* handle_unlock prompts by itself, after the header is parsed.
UnlockUnanswered(f) ==
    [Outcome(f, FALSE, "PromptFailed", <<>>, NoKey) EXCEPT !.asked = TRUE]

UnansweredLoad ==
    \E kr \in KeyResolvers :
        \E r \in {Unanswered(kr, fs, FALSE, now)} :
            /\ wpc = "idle"
            /\ VaultService_load(kr, fs, PromptFailed, now, ext).asked
            /\ fs' = r.fs
            /\ lastOp' = Rec(OpRes("load", r.ok, r.err, <<>>, NoKey,
                                   StoreRead(fs), 0, 0),
                             TRUE, fs[SESS], PromptFailed, kr)
            /\ SessionFrame

UnansweredSave ==
    \E kr \in KeyResolvers :
        \E r \in {Unanswered(kr, fs, IsEmpty(StoreRead(fs)), now)} :
            /\ wpc = "idle"
            /\ VaultService_save(kr, fs, <<E1>>, PromptFailed, SaltBytes(1),
                                 NonceBytes(ops + 1), now, ext, backups).asked
            /\ fs' = r.fs
            /\ lastOp' = Rec(OpRes("save", r.ok, r.err, <<E1>>, NoKey,
                                   StoreRead(fs), 0, 0),
                             TRUE, fs[SESS], PromptFailed, kr)
            /\ SessionFrame

UnansweredUnlock ==
    \E ttl \in Ttls :
        \E r \in {UnlockUnanswered(fs)} :
            /\ wpc = "idle"
            /\ handle_unlock(fs, ttl, PromptFailed, now, ext).asked
            /\ fs' = r.fs
            /\ lastOp' = Rec(OpRes("unlock", r.ok, r.err, <<>>, NoKey,
                                   StoreRead(fs), 0, 0),
                             TRUE, fs[SESS], PromptFailed, ttl)
            /\ SessionFrame

PromptNext ==
    \/ SessionSave
    \/ Lock
    \/ SpoilSession
    \/ HalfTick
    \/ UnansweredLoad
    \/ UnansweredSave
    \/ UnansweredUnlock

SpecPrompt == Init /\ [][PromptNext]_vars

SourceFailed(op) == op.pw = PromptFailed /\ op.asked

\* C26: when the passphrase source fails, load, save and unlock through
\* either resolver return an error value (no panic), and the vault file,
\* its backups and the session file are as they were.
C26_SourceFailureIsAnError ==
    [][SourceFailed(lastOp') /\ now' = now
          => ~lastOp'.ok /\ lastOp'.err # "panic" /\ fs' = fs]_vars

\* What does hold: a failing source never lets a call succeed, and the
\* vault file and its backups stay as they were.
UnansweredNeverWrites ==
    [][SourceFailed(lastOp') /\ now' = now
          => ~lastOp'.ok /\ \A n \in Names \ {SESS} : fs'[n] = fs[n]]_vars

(***************************************************************************)
(* Permission bits.  perm holds the mode of the parent directory (dir),    *)
(* whether this process may change it (own: the directory is named in the  *)
(* path and belongs to the user), and the mode of each file.  The write    *)
(* operations are followed on a pair S of directory contents and modes.    *)
(* A file made by File::create gets 0644 and a directory made by           *)
(* create_dir_all 0755 (umask 022); the vault file may have been put in    *)
(* place from outside with either mode.                                    *)
(***************************************************************************)
NoMode == "none"

PermState(f, pm) == [f |-> f, pm |-> pm]

chmod(S, n, md) == IF exists(S.f, n) THEN [S EXCEPT !.pm.mode[n] = md] ELSE S

KeepPerm(S, n) == S

set_perm_0600(S, n) == chmod(S, n, "0600")

\* create_dir_all, then set_permissions(parent, 0700) with its error ignored.
ensure_parent_secure(S) ==
    [S EXCEPT !.pm.dir = IF S.pm.own THEN "0700"
                         ELSE IF S.pm.dir = NoMode THEN "0755" ELSE S.pm.dir]

PermRename(S, src, dst) ==
    IF Renames(S.f, src, dst)
    THEN [f |-> rename(S.f, src, dst),
          pm |-> [S.pm EXCEPT !.mode[dst] = S.pm.mode[src], !.mode[src] = NoMode]]
    ELSE S

PermRemove(S, n) ==
    IF exists(S.f, n) /\ ~IsDir(S.f, n)
    THEN [f |-> remove_file(S.f, n), pm |-> [S.pm EXCEPT !.mode[n] = NoMode]]
    ELSE S

PermShiftOne(S, i) ==
    IF exists(S.f, backup_path(i))
    THEN set_perm_0600(PermRename(S, backup_path(i), backup_path(i + 1)),
                       backup_path(i + 1))
    ELSE S

RECURSIVE PermShiftLoop(_, _)
PermShiftLoop(S, i) == IF i < 1 THEN S ELSE PermShiftLoop(PermShiftOne(S, i), i - 1)

PermMoveCurrent(S) ==
    IF exists(S.f, P)
    THEN set_perm_0600(PermRename(S, P, backup_path(1)), backup_path(1))
    ELSE S

\* File::create keeps the mode of a file that is there.
PermCreate(S, t) ==
    [f |-> file_create(S.f, t),
     pm |-> [S.pm EXCEPT !.mode[t] = IF exists(S.f, t) THEN S.pm.mode[t] ELSE "0644"]]

PermWriteAll(S, t, bytes) == [S EXCEPT !.f = write_all(S.f, t, bytes)]

PermAtomicWrite(S, path, bytes, e) ==
    PermRename(chmod(PermWriteAll(PermCreate(S, tmp_path(path, e)),
                                  tmp_path(path, e), bytes),
                     tmp_path(path, e), "0600"),
               tmp_path(path, e), path)

PermRotated(S, n) ==
    IF RotationEnabled(n)
    THEN PermMoveCurrent(PermShiftLoop(PermRemove(S, backup_path(n)), ShiftStart(n)))
    ELSE S

PermWriteWithBackups(S, bytes, n, e) ==
    PermAtomicWrite(PermRotated(ensure_parent_secure(S), n), P, bytes, e)

PermSessionSave(S, data, ttl, t, e) ==
    PermAtomicWrite(ensure_parent_secure(S), SESS, SessionEnvelope(t + ttl, data), e)

SessionSample ==
    DerivedKeyStored(header_fingerprint_excluding_nonce(BaseHeader),
                     DeriveForHeader("pw", BaseHeader).key)

PermInit ==
    /\ IdleService
    /\ ext \in Exts
    /\ backups \in 0..MaxN
    /\ wpc = "idle"
    /\ wi = 0
    /\ wbytes = Absent
    /\ nStarted = 0
    /\ committed = <<>>
    /\ crashed = FALSE
    /\ interrupted = FALSE
    /\ wbase = FALSE
    /\ writers = <<>>
    /\ clip = NoClip
    /\ app = NoApp
    /\ \E placed \in {NoMode, "0600", "0644"}, d \in {NoMode, "0755"}, own \in BOOLEAN :
          /\ d = NoMode => own
          /\ placed # NoMode => d # NoMode
          /\ fs = [n \in Names |-> IF n = P /\ placed # NoMode THEN Earlier ELSE Absent]
          /\ perm = [dir |-> d, own |-> own,
                     mode |-> [n \in Names |-> IF n = P THEN placed ELSE NoMode]]

PermFrame ==
    UNCHANGED <<ext, backups, app, writers, clip, wpc, wi, wbytes, committed, crashed,
                interrupted, wbase, now, saved, draws, written, ops, touched>>

StoreWrite ==
    /\ nStarted < MaxWrites
    /\ \E r \in {PermWriteWithBackups(PermState(fs, perm), Bytes(nStarted + 1),
                                      backups, ext)} :
          /\ fs' = r.f
          /\ perm' = r.pm
          /\ lastOp' = OpRes("write", ~atomic_write_fails(fs, P), "", <<>>, NoKey,
                             StoreRead(fs), 0, 0)
    /\ nStarted' = nStarted + 1
    /\ PermFrame

SessionWrite ==
    /\ \E r \in {PermSessionSave(PermState(fs, perm), SessionSample, ttl_secs,
                                 now, ext)} :
          /\ fs' = r.f
          /\ perm' = r.pm
          /\ lastOp' = OpRes("session_save", ~atomic_write_fails(fs, SESS), "", <<>>,
                             NoKey, StoreRead(fs), 0, 0)
    /\ UNCHANGED nStarted
    /\ PermFrame

PermNext == StoreWrite \/ SessionWrite

SpecPerm == PermInit /\ [][PermNext]_vars

\* The modes are followed beside the byte store's own steps, not instead.
PermFollowsStore ==
    [][lastOp'.op = "write" /\ nStarted' = nStarted + 1
          => fs' = write_with_backups_n(fs, Bytes(nStarted + 1), backups, ext)]_vars

FilesOwnerOnly ==
    /\ lastOp.op = "write" => perm.mode[P] = "0600"
    /\ lastOp.op = "write" =>
          \A i \in 1..(MaxN + 1) : exists(fs, backup_path(i)) => perm.mode[i] = "0600"
    /\ exists(fs, SESS) => perm.mode[SESS] = "0600"

Written == lastOp.op \in {"write", "session_save"} /\ lastOp.ok

MaxCopies == 2
MaxClock == 3

Secrets == {"s1", "s2"}
ClipTtls == 0..2

\* get_contents of the system engine: Some(contents), or None on error.
get_contents(buf, readable) == IF readable THEN <<buf>> ELSE <<>>

\* What the spawned thread writes once it wakes.
RestoreValue(previous) == IF previous = <<>> THEN "" ELSE previous[1]

ClipInit ==
    /\ IdleService
    /\ fs = [n \in Names |-> Absent]
    /\ ext = "ron"
    /\ backups = DEFAULT_BACKUPS
    /\ wpc = "idle"
    /\ wi = 0
    /\ wbytes = Absent
    /\ nStarted = 0
    /\ committed = <<>>
    /\ crashed = FALSE
    /\ interrupted = FALSE
    /\ wbase = FALSE
    /\ writers = <<>>
    /\ perm = NoPerm
    /\ app = NoApp
    /\ \E b \in {"old", ""} :
          clip = [buf |-> b, alive |-> TRUE, t |-> 0, pending |-> {},
                  copies |-> 0, prev |-> b, ttl |-> 0, at |-> 0,
                  foreign |-> FALSE]

ClipFrame ==
    UNCHANGED <<fs, ext, backups, app, writers, perm, wpc, wi, wbytes, nStarted,
                committed, crashed, interrupted, wbase, now, saved, draws,
                written, ops, touched>>

\* copy_with_ttl: read the clipboard, set it, spawn the restoring thread.
\* Either engine call may fail, and then nothing is spawned.
Copy ==
    /\ clip.alive
    /\ clip.copies < MaxCopies
    /\ \E secret \in Secrets, ttl \in ClipTtls, readable, set_ok \in BOOLEAN :
          /\ clip.t + ttl <= MaxClock
          /\ clip' = IF ~set_ok THEN clip
                     ELSE [clip EXCEPT
                             !.buf = secret,
                             !.pending = @ \cup {[due |-> clip.t + ttl,
                                                  val |-> RestoreValue(
                                                      get_contents(clip.buf, readable))]},
                             !.copies = @ + 1,
                             !.prev = RestoreValue(get_contents(clip.buf, readable)),
                             !.ttl = ttl,
                             !.at = clip.t]
          /\ lastOp' = Rec(OpRes("copy", set_ok, IF set_ok THEN "" ELSE "ClipboardFailed",
                                 <<>>, NoKey, Absent, 0, 0),
                           FALSE, Absent, "", secret)
    /\ ClipFrame

\* The thread wakes after thread::sleep(ttl) and writes what it kept.
Restore(th) ==
    /\ clip.alive
    /\ th \in clip.pending
    /\ clip.t >= th.due
    /\ clip' = [clip EXCEPT !.buf = th.val, !.pending = @ \ {th}]
    /\ UNCHANGED lastOp
    /\ ClipFrame

RestoreStep == \E th \in clip.pending : Restore(th)

Elapse ==
    /\ clip.t < MaxClock
    /\ clip' = [clip EXCEPT !.t = @ + 1]
    /\ UNCHANGED lastOp
    /\ ClipFrame

\* main returns: the process ends and its threads with it.
Exit ==
    /\ clip.alive
    /\ clip.copies > 0
    /\ clip' = [clip EXCEPT !.alive = FALSE, !.pending = {}]
    /\ UNCHANGED lastOp
    /\ ClipFrame

\* Something else writes the clipboard.
OtherWrite ==
    /\ ~clip.foreign
    /\ clip' = [clip EXCEPT !.buf = "other", !.foreign = TRUE]
    /\ UNCHANGED lastOp
    /\ ClipFrame

ClipNext == Copy \/ RestoreStep \/ Elapse \/ Exit \/ OtherWrite

\* Time passes, and a thread that may run does run.
SpecClip ==
    ClipInit /\ [][ClipNext]_vars /\ WF_vars(Elapse) /\ WF_vars(RestoreStep)

CopyReturned ==
    /\ clip'.copies = clip.copies + 1
    /\ lastOp'.op = "copy"
    /\ lastOp'.ok

CopiedAlone == clip.copies = 1 /\ ~clip.foreign

\* C28: copy_with_ttl sets the clipboard to the secret before it returns;
\* the contents set back are those held just before the call, or the empty
\* string when they could not be read, and not before ttl has elapsed; and
\* when nothing else writes the clipboard, it eventually holds its previous
\* contents again.
C28_SetThenRestored ==
    /\ [][CopyReturned => clip'.buf = lastOp'.arg]_vars
    /\ [][CopiedAlone /\ clip'.buf # clip.buf /\ clip'.copies = clip.copies
             /\ ~clip'.foreign
          => clip'.buf = clip.prev /\ clip.t >= clip.at + clip.ttl]_vars
    /\ (CopiedAlone ~> (clip.buf = clip.prev \/ ~CopiedAlone))

\* What holds: the two safety parts, and the restore while the process runs.
ClipSetAndRestoreValue ==
    /\ [][CopyReturned => clip'.buf = lastOp'.arg]_vars
    /\ [][CopiedAlone /\ clip'.buf # clip.buf /\ clip'.copies = clip.copies
             /\ ~clip'.foreign
          => clip'.buf = clip.prev /\ clip.t >= clip.at + clip.ttl]_vars

RestoredWhileRunning ==
    (CopiedAlone /\ clip.alive) ~> (clip.buf = clip.prev \/ ~CopiedAlone \/ ~clip.alive)

(***************************************************************************)
(* Load specification: loads through both resolvers of a vault that is     *)
(* absent, zero-length or written by save, under either file extension,    *)
(* with a session that is there, expired or cleared.                       *)
(***************************************************************************)
LoadInit ==
    /\ IdleStore
    /\ IdleService
    /\ ext \in Exts
    /\ backups = DEFAULT_BACKUPS

\* The vault file is left zero-length from outside.
EmptyVault ==
    /\ wpc = "idle"
    /\ fs[P] # File(<<>>, NoBody)
    /\ fs' = [fs EXCEPT ![P] = File(<<>>, NoBody)]
    /\ lastOp' = Rec(OpRes("empty", TRUE, "", <<>>, NoKey, StoreRead(fs), 0, 0),
                     FALSE, fs[SESS], "", <<>>)
    /\ SessionFrame

LoadNext ==
    \/ SessionSave
    \/ Load
    \/ BypassLoad
    \/ Lock
    \/ EmptyVault
    \/ HalfTick

SpecLoad == LoadInit /\ [][LoadNext]_vars

LoadStep == lastOp'.op = "load" /\ now' = now

LoadOfNothing ==
    IsEmpty(StoreRead(fs))
        => /\ lastOp'.ok
           /\ lastOp'.val = <<>>
           /\ ~lastOp'.asked
           /\ fs' = fs

VaultAndBackupsKept == \A n \in P..(MaxN + 1) : fs'[n] = fs[n]

\* C29: load of an absent or zero-length vault file returns the empty list
\* without asking for a key or a passphrase and without creating or changing
\* any file; and no load, whatever its outcome, writes the vault file or a
\* backup.
C29_LoadWritesNothing == [][LoadStep => LoadOfNothing /\ VaultAndBackupsKept]_vars

\* What holds: the first half as it stands, the second for a vault file
\* whose extension is not tmp.
LoadKeepsVaultUnlessTmp ==
    [][LoadStep => LoadOfNothing /\ (ext # "tmp" => VaultAndBackupsKept)]_vars

(***************************************************************************)
(* Invalid-header specification: a vault file that starts with KEVI and    *)
(* whose header does not parse, put in place once from outside, beside a   *)
(* session that an earlier save left and that may have expired since.      *)
(***************************************************************************)
SampleHeader == build_header(SaltBytes(1), NonceBytes(1), 65536, 3, 1)

InvalidHeaders ==
    { File(HEADER_MAGIC, NoBody),
      File(SubSeq(SampleHeader, 1, MIN_LEN - 1), NoBody),
      File([SampleHeader EXCEPT ![5] = 2], NoBody),
      File([SampleHeader EXCEPT ![7] = 3], NoBody),
      File([SampleHeader EXCEPT ![8] = 2], NoBody) }

PlantInvalid ==
    /\ wpc = "idle"
    /\ touched = NoTamper
    /\ \E c \in InvalidHeaders :
          /\ fs' = [fs EXCEPT ![P] = c]
          /\ lastOp' = OpRes("plant", TRUE, "", <<>>, NoKey, StoreRead(fs), 0, 0)
    /\ touched' = [kind |-> "plant", bit |-> 0]
    /\ saved' = [saved EXCEPT !.valid = FALSE]
    /\ UNCHANGED <<ext, backups, app, writers, perm, clip, wpc, wi, wbytes, nStarted,
                   committed, crashed, interrupted, wbase, now, draws, written,
                   ops>>

InvalidNext ==
    \/ SessionSave
    \/ BypassSave
    \/ PlantInvalid
    \/ Load
    \/ BypassLoad
    \/ Unlock
    \/ HalfTick

SpecInvalid == Init /\ [][InvalidNext]_vars

InvalidKevi(f) ==
    /\ exists(f, P)
    /\ HasMagic(f[P])
    /\ ~parse_kevi_header(f[P].raw).ok

ServiceStep == lastOp'.op \in {"load", "save", "unlock"} /\ now' = now

\* C30: on a vault file that starts with KEVI and has an invalid header,
\* load, save and unlock fail with the header's error before any key is
\* resolved: the passphrase source is not asked and no file changes, the
\* session file (even an expired one) and the vault file included.
C30_HeaderErrorBeforeKey ==
    [][ServiceStep /\ InvalidKevi(fs)
          => /\ ~lastOp'.ok
             /\ lastOp'.err = parse_kevi_header(fs[P].raw).err
             /\ lastOp'.err \in {"TooShort", "UnsupportedVersion", "UnsupportedKdf",
                                 "UnsupportedAead"}
             /\ ~lastOp'.asked
             /\ fs' = fs]_vars

C30_Witness ==
    /\ lastOp.op = "load"
    /\ lastOp.err = "UnsupportedVersion"
    /\ InvalidKevi(fs)
    /\ lastOp.read = fs[P]
    /\ Expired(fs[SESS], now)

C30_WitnessSave ==
    /\ lastOp.op = "save"
    /\ lastOp.err = "TooShort"
    /\ InvalidKevi(fs)
    /\ lastOp.read = fs[P]
    /\ exists(fs, SESS)

C30_WitnessUnlock ==
    /\ lastOp.op = "unlock"
    /\ lastOp.err = "UnsupportedAead"
    /\ InvalidKevi(fs)
    /\ lastOp.read = fs[P]
    /\ Expired(fs[SESS], now)

(***************************************************************************)
(* Save specification: saves through both resolvers over a vault that is   *)
(* absent, written by save, or replaced from outside by a file save cannot *)
(* use, under either file extension, with a session path that may hold a   *)
(* session, junk or a directory.                                           *)
(***************************************************************************)
UnusableFiles ==
    PlantedFiles \cup
        { File(build_header(SaltBytes(1), NonceBytes(1), 0, 3, 1), NoBody) }

PlantUnusable ==
    /\ wpc = "idle"
    /\ touched = NoTamper
    /\ \E c \in UnusableFiles :
          /\ fs' = [fs EXCEPT ![P] = c]
          /\ lastOp' = OpRes("plant", TRUE, "", <<>>, NoKey, StoreRead(fs), 0, 0)
    /\ touched' = [kind |-> "plant", bit |-> 0]
    /\ saved' = [saved EXCEPT !.valid = FALSE]
    /\ UNCHANGED <<ext, backups, app, writers, perm, clip, wpc, wi, wbytes, nStarted,
                   committed, crashed, interrupted, wbase, now, draws, written,
                   ops>>

SaveNext ==
    \/ SessionSave
    \/ BypassSave
    \/ PlantUnusable
    \/ SpoilSession
    \/ ClearDirectory
    \/ HalfTick

SpecSave == LoadInit /\ [][SaveNext]_vars

SaveFailed == lastOp'.op = "save" /\ ops' = ops + 1 /\ ~lastOp'.ok

\* C31: a save that fails (the existing file does not parse as a header,
\* the key cannot be resolved) has rotated no backup and leaves the file at
\* path and every backup path.i as they were before the call.
C31_FailedSaveWritesNothing == [][SaveFailed => VaultAndBackupsKept]_vars

\* What holds: the same for a vault file whose extension is not tmp.
FailedSaveKeepsVaultUnlessTmp ==
    [][SaveFailed /\ ext # "tmp" => VaultAndBackupsKept]_vars

(***************************************************************************)
(* Adding a record: the command line's handle_add and the terminal         *)
(* interface's add form.  app is the App of tui/app.rs while the interface *)
(* runs: the records it loaded, the search filter and the indices it lets  *)
(* through, the mode and view, the label typed into the form, the toast.   *)
(* The cursor and the form's user and notes fields are left out: no step   *)
(* of adding reads the first, and the others stay empty.                   *)
(***************************************************************************)
MaxFilter == 1
MaxForm == 2

FilterChars == {"b", "A"}
FormChars == {"a", " "}

LowerChar(c) == IF c = "A" THEN "a" ELSE IF c = "B" THEN "b" ELSE c

to_lowercase(s) == [i \in 1..Len(s) |-> LowerChar(s[i])]

contains(s, q) ==
    \E i \in 0..(Len(s) - Len(q)) : SubSeq(s, i + 1, i + Len(q)) = q

RECURSIVE trim_start(_)
trim_start(s) ==
    IF s # <<>> /\ Head(s) = " " THEN trim_start(Tail(s)) ELSE s

RECURSIVE trim_end(_)
trim_end(s) ==
    IF s # <<>> /\ s[Len(s)] = " " THEN trim_end(SubSeq(s, 1, Len(s) - 1))
    ELSE s

trim(s) == trim_end(trim_start(s))

Passes(a, i) ==
    \/ a.filter = <<>>
    \/ contains(to_lowercase(a.entries[i].label), to_lowercase(a.filter))

recompute(a) ==
    [a EXCEPT !.filtered = SelectSeq([i \in 1..Len(a.entries) |-> i],
                                     LAMBDA i : Passes(a, i))]

App_new(entries) ==
    recompute([entries |-> entries, filtered |-> <<>>, filter |-> <<>>,
               mode |-> "normal", view |-> "list", form_label |-> <<>>,
               toast |-> ""])

visible_labels(a) ==
    [k \in 1..Len(a.filtered) |-> a.entries[a.filtered[k]].label]

replace_entries(a, new_entries) == recompute([a EXCEPT !.entries = new_entries])

toast(a, msg) == [a EXCEPT !.toast = msg]

InSeq(x, s) == \E i \in 1..Len(s) : s[i] = x

\* handlers.rs handle_add: load, refuse a label the list has, else push and
\* save.  The record's other fields are answered or generated.
HandleAddLoaded(kr, l, entry, pw, pw2, fresh, nonce_bytes, t, e, n) ==
    IF ~l.ok THEN EntryOutcome(l, FALSE, <<>>, FALSE)
    ELSE IF HasLabel(l.val, entry.label)
    THEN EntryOutcome(l, FALSE, l.val, FALSE)
    ELSE EntryOutcome(VaultService_save(kr, l.fs, Append(l.val, entry),
                                        NextAnswer(l, pw, pw2), fresh,
                                        nonce_bytes, t, e, n),
                      l.asked, l.val, FALSE)

handle_add(kr, f, entry, pw, pw2, fresh, nonce_bytes, t, e, n) ==
    HandleAddLoaded(kr, VaultService_load(kr, f, pw, t, e), entry, pw, pw2,
                    fresh, nonce_bytes, t, e, n)

\* tui/mod.rs, Enter in the add form.
Generated == <<"g">>

FormEntry(label) == VaultEntry(label, None, Generated, None)

NoAdd(f) ==
    [fs |-> f, ok |-> FALSE, err |-> "", val |-> <<>>, key |-> NoKey,
     asked |-> FALSE, removed |-> FALSE]

Submitted(f, a, add, called) ==
    [fs |-> f, app |-> a, add |-> add, called |-> called]

\* The result of add_entry is dropped; a failing reload ends the interface.
AddReloaded(a, add, l) ==
    IF ~l.ok THEN Submitted(l.fs, NoApp, add, TRUE)
    ELSE Submitted(l.fs,
                   toast([replace_entries(a, l.val) EXCEPT !.view = "list"],
                         "Saved"),
                   add, TRUE)

AddStored(a, add, pw, t, e) ==
    AddReloaded(a, add, VaultService_load("cached", add.fs, pw, t, e))

LabelTaken(labels, label) == InSeq(label, labels)

AddChecked(a, f, labels, label, pw, pw2, fresh, nonce_bytes, t, e, n) ==
    IF label = <<>> THEN Submitted(f, toast(a, "Label required"), NoAdd(f), FALSE)
    ELSE IF LabelTaken(labels, label)
    THEN Submitted(f, toast(a, "Label exists"), NoAdd(f), FALSE)
    ELSE AddStored(a, add_entry("cached", f, FormEntry(label), pw, pw2, fresh,
                                nonce_bytes, t, e, n),
                   pw, t, e)

add_form_enter(a, f, pw, pw2, fresh, nonce_bytes, t, e, n) ==
    AddChecked(a, f, visible_labels(a), trim(a.form_label), pw, pw2, fresh,
               nonce_bytes, t, e, n)

Recorded(wrote, entries, key, n, f) ==
    /\ saved' = IF wrote THEN [valid |-> TRUE, R |-> entries, key |-> key]
                ELSE saved
    /\ draws' = IF wrote THEN Append(draws, n) ELSE draws
    /\ written' = IF wrote
                  THEN Append(written, [key |-> key,
                                        salt |-> WrittenHeader(f).salt,
                                        nonce |-> WrittenHeader(f).nonce])
                  ELSE written
    /\ touched' = IF wrote THEN NoTamper ELSE touched
    /\ ops' = IF wrote THEN ops + 1 ELSE ops

TuiFrame ==
    UNCHANGED <<ext, backups, writers, perm, clip, wpc, wi, wbytes, nStarted,
                committed, crashed, interrupted, wbase, now>>

TuiKeyFrame ==
    /\ TuiFrame
    /\ UNCHANGED <<fs, lastOp, saved, draws, written, ops, touched>>

\* The vault before the interface or the command runs.
TuiSeed ==
    /\ ops < MaxOps
    /\ app = NoApp
    /\ saved.valid = FALSE
    /\ \E entries \in {<<>>, <<E1>>, <<E3, E1>>} :
          SaveWith("cached", entries, "pw", 1, ops + 1)

HandleAdd ==
    /\ ops < MaxOps
    /\ wpc = "idle"
    /\ app = NoApp
    /\ \E label \in SampleLabels, pw \in Passphrases :
          \E r \in {handle_add("cached", fs, FormEntry(label), pw, pw,
                                SaltBytes(1), NonceBytes(ops + 1), now, ext,
                                backups)} :
              /\ fs' = r.fs
              /\ lastOp' = Rec(OpRes("handle_add", r.ok, r.err, r.val, r.key,
                                     StoreRead(fs), 1, ops + 1),
                               r.asked, fs[SESS], pw, label)
              /\ Recorded(r.ok /\ ~HasLabel(r.val, label),
                          Append(r.val, FormEntry(label)), r.key, ops + 1, r.fs)
              /\ UNCHANGED app
              /\ TuiFrame

Launch ==
    /\ app = NoApp
    /\ wpc = "idle"
    /\ \E pw \in Passphrases :
          \E r \in {VaultService_load("cached", fs, pw, now, ext)} :
              /\ fs' = r.fs
              /\ app' = IF r.ok THEN App_new(r.val) ELSE NoApp
              /\ lastOp' = Rec(OpRes("launch", r.ok, r.err, r.val, r.key,
                                     StoreRead(fs), 0, 0),
                               r.asked, fs[SESS], pw, <<>>)
              /\ UNCHANGED <<saved, draws, written, ops, touched>>
              /\ TuiFrame

Listing == app # NoApp /\ app.view = "list"

EnterSearch ==
    /\ Listing /\ app.mode = "normal"
    /\ app' = [app EXCEPT !.mode = "search"]
    /\ TuiKeyFrame

ExitSearch ==
    /\ Listing /\ app.mode = "search"
    /\ app' = [app EXCEPT !.mode = "normal"]
    /\ TuiKeyFrame

PushFilter ==
    /\ Listing /\ app.mode = "search"
    /\ Len(app.filter) < MaxFilter
    /\ \E c \in FilterChars :
          app' = recompute([app EXCEPT !.filter = Append(@, c)])
    /\ TuiKeyFrame

PopFilter ==
    /\ Listing /\ app.mode = "search"
    /\ app' = recompute([app EXCEPT
                            !.filter = SubSeq(@, 1, Len(@) - 1)])
    /\ TuiKeyFrame

EnterAdd ==
    /\ Listing /\ app.mode = "normal"
    /\ app' = [app EXCEPT !.view = "add", !.form_label = <<>>]
    /\ TuiKeyFrame

CancelModal ==
    /\ app # NoApp /\ app.view = "add"
    /\ app' = [app EXCEPT !.view = "list"]
    /\ TuiKeyFrame

FormChar ==
    /\ app # NoApp /\ app.view = "add"
    /\ Len(app.form_label) < MaxForm
    /\ \E c \in FormChars : app' = [app EXCEPT !.form_label = Append(@, c)]
    /\ TuiKeyFrame

FormBackspace ==
    /\ app # NoApp /\ app.view = "add"
    /\ app' = [app EXCEPT !.form_label = SubSeq(@, 1, Len(@) - 1)]
    /\ TuiKeyFrame

FormEnter ==
    /\ app # NoApp /\ app.view = "add"
    /\ ops < MaxOps
    /\ wpc = "idle"
    /\ \E pw \in Passphrases :
          \E r \in {add_form_enter(app, fs, pw, pw, SaltBytes(1),
                                    NonceBytes(ops + 1), now, ext, backups)} :
              /\ fs' = r.fs
              /\ app' = r.app
              /\ lastOp' = Rec(OpRes("form_enter", r.add.ok, r.add.err,
                                     r.add.val, r.add.key, StoreRead(fs), 1,
                                     ops + 1),
                               r.add.asked, fs[SESS], pw, trim(app.form_label))
              /\ Recorded(r.add.ok,
                          Append(r.add.val, FormEntry(trim(app.form_label))),
                          r.add.key, ops + 1, r.fs)
              /\ TuiFrame

TuiNext ==
    \/ TuiSeed
    \/ HandleAdd
    \/ Launch
    \/ EnterSearch
    \/ ExitSearch
    \/ PushFilter
    \/ PopFilter
    \/ EnterAdd
    \/ CancelModal
    \/ FormChar
    \/ FormBackspace
    \/ FormEnter

SpecTui == Init /\ [][TuiNext]_vars

AddingStep == lastOp'.op \in {"handle_add", "form_enter"} /\ lastOp' # lastOp

\* C32: adding a record whose label equals the label of a record already in
\* the vault, from the command line or from the add form of the terminal
\* interface under any search filter, writes nothing: the vault file and
\* its backups are as before.
C32_DuplicateLabelWritesNothing ==
    [][(AddingStep /\ saved.valid /\ HasLabel(saved.R, lastOp'.arg))
         => VaultAndBackupsKept]_vars

\* What holds: the command line refuses the label whatever the vault holds,
\* and the form refuses a label that the list on screen shows.
DuplicateRefusedWhenVisible ==
    [][(AddingStep /\ saved.valid /\ HasLabel(saved.R, lastOp'.arg)
        /\ (lastOp'.op = "handle_add"
            \/ InSeq(lastOp'.arg, visible_labels(app))))
         => VaultAndBackupsKept]_vars

\* A label is refused by the command line.
HandleAddRefused ==
    /\ lastOp.op = "handle_add" /\ lastOp.ok
    /\ HasLabel(lastOp.val, lastOp.arg)

(***************************************************************************)
(* The cached key and the vault it is cached for.                          *)
(***************************************************************************)
CacheNext ==
    \/ SessionSave
    \/ Load
    \/ Unlock
    \/ Lock
    \/ HalfTick

SpecCache == Init /\ [][CacheNext]_vars

VaultParses == fs[P].kind = "file" /\ parse_kevi_header(fs[P].raw).ok

CachedForVault ==
    /\ Unexpired(fs[SESS], now)
    /\ VaultParses
    /\ fs[SESS].body.data.header_fingerprint_hex =
           header_fingerprint_excluding_nonce(WrittenHeader(fs))

CachedKey == fs[SESS].body.data.key_b64.bytes

\* C33: an unexpired session file whose fingerprint equals the fingerprint
\* of the current vault header holds a key that decrypts the current vault.
C33_CachedKeyOpensVault ==
    CachedForVault => decrypt_vault_with_key(fs[P], CachedKey).ok

\* A load through the cached resolver that asked for the passphrase, got a
\* wrong one and failed to decrypt.
WrongPassphraseLoad(op) ==
    /\ CachedLoad(op) /\ ~op.ok /\ op.err = "DecryptionFailed"
    /\ op.asked /\ saved.valid /\ op.pw # saved.key.pw

\* The step is a load through the cached resolver answered with the
\* passphrase of the vault.
RightPassphraseLoad ==
    /\ CachedLoad(lastOp') /\ ops' = ops /\ now' = now
    /\ lastOp'.pw = saved.key.pw

\* C34: after a load through the cached resolver failed with
\* DecryptionFailed because of a wrong passphrase, the next load, given the
\* correct passphrase, succeeds, with no lock in between and before the
\* lifetime of the session has passed.
C34_RetryWithRightPassphrase ==
    [][(WrongPassphraseLoad(lastOp) /\ RightPassphraseLoad) => lastOp'.ok]_vars

\* The key the vault file at path is sealed under.
VaultKey(f) == f[P].body.key

Opens(f, key) == f[P].kind = "file" /\ decrypt_vault_with_key(f[P], key).ok

SavedOverVault ==
    /\ lastOp'.op = "save" /\ ops' = ops + 1 /\ lastOp'.ok
    /\ VaultParses /\ Opens(fs, VaultKey(fs))

\* C35: a successful save over an existing vault leaves a file that still
\* decrypts under the key that decrypted the file before the save, whatever
\* passphrase is given and whatever key is cached.
C35_SaveKeepsKey == [][SavedOverVault => Opens(fs', VaultKey(fs))]_vars

(***************************************************************************)
(* Key-length specification: a vault, a session file of any content under  *)
(* its fingerprint or another, and loads through the cached resolver of    *)
(* session_management and through the one of core/adapters.rs.            *)
(***************************************************************************)
KeyLens == {0, KEY_LEN - 1, KEY_LEN, KEY_LEN + 1}

\* What the first KEY_LEN bytes of a stored key of n bytes are: a key, when
\* there are that many.
StoredKeys(k) ==
    {[b64 |-> FALSE, len |-> 0, bytes |-> NoKey]} \cup
    {[b64 |-> TRUE, len |-> n, bytes |-> IF n >= KEY_LEN THEN k ELSE NoKey] :
        n \in KeyLens}

OtherFingerprint ==
    header_fingerprint_excluding_nonce([BaseHeader EXCEPT !.t_cost = 4])

PlantSession ==
    /\ wpc = "idle"
    /\ VaultParses
    /\ lastOp.op # "plant_session"
    /\ \E fp \in {header_fingerprint_excluding_nonce(WrittenHeader(fs)),
                  OtherFingerprint},
          kb \in StoredKeys(VaultKey(fs)) :
          fs' = [fs EXCEPT ![SESS] =
                    SessionEnvelope(now + DEFAULT_TTL,
                                    [header_fingerprint_hex |-> fp,
                                     key_b64 |-> kb])]
    /\ lastOp' = Rec(OpRes("plant_session", TRUE, "", <<>>, NoKey,
                           StoreRead(fs), 0, 0),
                     FALSE, fs[SESS], "", <<>>)
    /\ SessionFrame

AdapterLoad == \E pw \in Passphrases : LoadWith("adapters", pw)

KeyLenNext ==
    \/ SessionSave
    \/ PlantSession
    \/ Load
    \/ AdapterLoad
    \/ Lock
    \/ HalfTick

SpecKeyLen == Init /\ [][KeyLenNext]_vars

\* The session file the load found holds, under the vault's fingerprint, a
\* key that is not base64 or is shorter than KEY_LEN bytes.
UnusableKeyFound ==
    /\ lastOp.op = "load"
    /\ lastOp.read.kind = "file" /\ parse_kevi_header(lastOp.read.raw).ok
    /\ IsSession(lastOp.sess)
    /\ \/ ~lastOp.sess.body.data.key_b64.b64
       \/ lastOp.sess.body.data.key_b64.len < KEY_LEN

\* C36: a session whose key is not valid base64 or decodes to fewer than
\* KEY_LEN bytes is a cache miss, for either cached resolver: the load asks
\* for the passphrase and nothing panics.
C36_ShortKeyIsAMiss ==
    UnusableKeyFound => (lastOp.err # Panicked /\ lastOp.asked)

\* What holds: the same for the resolver of session_management, and for
\* both resolvers when the stored key is not valid base64.
ShortKeyIsAMissUnlessAdapters ==
    (UnusableKeyFound
        /\ (lastOp.arg = "cached" \/ ~lastOp.sess.body.data.key_b64.b64))
      => (lastOp.err # Panicked /\ lastOp.asked)

(***************************************************************************)
(* A vault write and a session write running side by side, for a vault     *)
(* named vault.ron: writer 1 runs write_with_backups_n on the vault path,  *)
(* writer 2 runs the session's atomic_write_secure on the session path.    *)
(***************************************************************************)
VaultWriter == 1
SessionWriter == 2

CrossInit ==
    /\ IdleService
    /\ fs \in {[n \in Names |-> Absent],
               [n \in Names |-> IF n = P THEN Earlier ELSE Absent]}
    /\ ext = "ron"
    /\ backups \in 0..MaxN
    /\ wpc = "idle"
    /\ wi = 0
    /\ wbytes = Absent
    /\ nStarted = 0
    /\ committed = <<>>
    /\ crashed = FALSE
    /\ interrupted = FALSE
    /\ wbase = FALSE
    /\ perm = NoPerm
    /\ clip = NoClip
    /\ app = NoApp
    /\ writers = [w \in Writers |->
                     [pc |-> IF w = VaultWriter THEN FirstStep(backups)
                             ELSE "create_tmp",
                      i |-> 0, h |-> Closed, off |-> 0, ok |-> FALSE,
                      dst |-> IF w = VaultWriter THEN P ELSE SESS]]

SpecCross == CrossInit /\ [][RaceNext]_vars

HoldsByteOf(file, w) ==
    file.kind = "file" /\ \E j \in 1..Len(file.raw) : file.raw[j] = Given(w).raw[1]

\* C37: a session write and a vault write that ran side by side leave
\* neither the vault file holding bytes of the session nor the session
\* file holding bytes of the vault.
C37_NoCrossedBytes ==
    BothFinished => /\ ~HoldsByteOf(fs[P], SessionWriter)
                    /\ ~HoldsByteOf(fs[SESS], VaultWriter)

\* C38: once a write has committed a vault at path, the file at path is
\* there at every step of every later write with one backup or more, and
\* after an interruption of one: a reader never finds path absent.
C38_PathNeverAbsent ==
    (committed # <<>> /\ backups >= 1) => exists(fs, P)

\* What holds: the committed contents are at path or at path.1, and
\* with no backups the file at path stays in place until the rename.
PathPresentWithoutBackups ==
    (committed # <<>> /\ backups = 0 /\ ext # "tmp") => exists(fs, P)

\* Every thread spawned by a copy has woken and written, in a process that
\* still runs.
AllTimersFired ==
    clip # NoClip /\ clip.alive /\ clip.copies > 0 /\ clip.pending = {}

\* C39: after any sequence of copy_with_ttl calls, overlapping ones
\* included, once every restore timer has fired the clipboard holds none of
\* the secrets that were copied.
C39_NoSecretLeftBehind == AllTimersFired => clip.buf \notin Secrets

\* What holds: a single copy is restored to what the clipboard held.
SingleCopyRestored ==
    (AllTimersFired /\ clip.copies = 1) => clip.buf \notin Secrets

\* A load or a save through the cached resolver that got its key from the
\* session file: the resolver was reached and the passphrase source was
\* not asked.
CacheHitStep ==
    /\ lastOp'.op \in {"load", "save"} /\ lastOp'.arg = "cached"
    /\ now' = now
    /\ ~lastOp'.asked
    /\ lastOp'.read.kind = "file" /\ parse_kevi_header(lastOp'.read.raw).ok

\* C40: a cache hit returns the key of an unexpired session and leaves the
\* session file as it is, expiry included, so a key cached at t with
\* lifetime d is not returned from that session at t + d or later; a step
\* that writes a session file is one that derived the key from the
\* passphrase (a cache miss, a first save, unlock).
C40_HitKeepsExpiry ==
    /\ [][CacheHitStep =>
            /\ fs'[SESS] = fs[SESS]
            /\ Unexpired(fs[SESS], now)
            /\ lastOp'.key = fs[SESS].body.data.key_b64.bytes]_vars
    /\ [][SessionWritten => lastOp'.asked /\ lastOp'.key.pw = lastOp'.pw]_vars

\* A hit half a lifetime after the session was written at time 0.
C40_Witness ==
    /\ CachedLoad(lastOp) /\ lastOp.ok /\ ~lastOp.asked
    /\ ReachedResolver(lastOp)
    /\ now = TickSecs \div 2
    /\ fs[SESS] = lastOp.sess
    /\ IsSession(fs[SESS])
    /\ fs[SESS].body.expires_at_unix = ttl_secs
====
